---- MODULE Spec2Model ----
(***************************************************************************)
(* The SFOWeb integration: SFOScraper (scraper.py), the polling            *)
(* coordinator (__init__.py) and the functions they are built from.        *)
(*                                                                         *)
(* Spec       one coordinator refresh after another; each refresh runs one *)
(*            SFOScraper.async_get_appointments call, one request at a     *)
(*            time, against a portal that answers every request with any   *)
(*            outcome (transport error, any status, any sample page).      *)
(* SpecVerify the page judgment of _verify_authentication on every page of *)
(*            a bounded set of page texts.                                 *)
(* SpecForm   the request _submit_login_form builds, on every form of a    *)
(*            bounded set of forms.                                        *)
(* SpecParse  _parse_appointments_html on a bounded set of pages.          *)
(* SpecGate   the same on pages with and without login indicators.         *)
(* SpecCreds  async_test_credentials of both scrapers.                     *)
(* SpecPair   two scrapers with different accounts, side by side.          *)
(* SpecCall   one refresh, that is one async_get_appointments call.        *)
(* SpecTwice  refreshes against a portal whose answers are fixed.          *)
(* SpecSession the session of a fetch or validate call of either scraper.  *)
(* SpecVerdict _verify_authentication in two runs side by side.            *)
(***************************************************************************)
EXTENDS Integers, Sequences, FiniteSets, TLC

\* ------------------------------------------------------------ bounds
\* Most anchors / login methods / meta redirects a sample page carries.
MaxLinks == 2
\* Most endpoints the AJAX patterns find in a sample login page.
MaxEndpoints == 6
\* Coordinator refresh cycles explored.
MaxCycles == 2
\* Most inputs of a form explored by SpecForm.
MaxInputs == 3

\* Most data rows of a sample table.
MaxRows == 2

\* Most divs, list items and spans of a sample appointments page.
MaxElements == 2

\* ------------------------------------------------------------ URLs
\* A URL is a host and a path (its segments); queries are dropped, as
\* urljoin drops the base's query when it resolves a reference.
Url(h, p) == [host |-> h, path |-> p]

PortalHost == "soestjernen.sfoweb.dk"

LOGIN_URL == Url(PortalHost, <<"redirect.php">>)

APPOINTMENTS_URL == Url(PortalHost, <<"guardian", "appointments">>)

sfo_urls == << Url(PortalHost, <<>>), Url(PortalHost, <<"login">>), LOGIN_URL >>

oauth_endpoints ==
  << Url("sfo-web.aula.dk", <<"auth", "oauth">>),
     Url("sfo-web.aula.dk", <<"sso", "login">>),
     Url("login.aula.dk", <<"auth">>),
     Url("wayf.dk", <<"login">>),
     Url(PortalHost, <<"auth">>) >>

test_urls ==
  << APPOINTMENTS_URL,
     Url(PortalHost, <<"aftaler">>),
     Url(PortalHost, <<"appointments">>),
     Url(PortalHost, <<"dashboard">>) >>

appointment_urls ==
  << APPOINTMENTS_URL,
     Url(PortalHost, <<"aftaler">>),
     Url(PortalHost, <<"appointments">>),
     Url(PortalHost, <<"calendar">>) >>

\* A reference as it stands in an href or action attribute: absent, empty,
\* absolute ("http..."), rooted ("/a/b") or relative to the base's directory.
RefAbsent == [kind |-> "absent", host |-> "", path |-> <<>>]

RefEmpty == [kind |-> "empty", host |-> "", path |-> <<>>]

RefRooted(p) == [kind |-> "rooted", host |-> "", path |-> p]

RefRelative(p) == [kind |-> "relative", host |-> "", path |-> p]

RefAbsolute(u) == [kind |-> "absolute", host |-> u.host, path |-> u.path]

Front(s) == IF s = <<>> THEN <<>> ELSE SubSeq(s, 1, Len(s) - 1)

\* urllib.parse.urljoin(base, ref).
urljoin(base, ref) ==
  CASE ref.kind = "absolute" -> Url(ref.host, ref.path)
    [] ref.kind = "rooted"   -> Url(base.host, ref.path)
    [] ref.kind = "relative" -> Url(base.host, Front(base.path) \o ref.path)
    [] OTHER                 -> base

\* `if not href.startswith('http'): href = urljoin(current_url, href)`.
ResolveHref(current_url, href) ==
  IF href.kind = "absolute" THEN Url(href.host, href.path)
  ELSE urljoin(current_url, href)

\* aiohttp follows redirects: response.url is the requested URL or the URL
\* the portal redirected the request to.
RedirectTarget(u) == Url(u.host, <<"parent", "login">>)

FinalUrls(u) == {u, RedirectTarget(u)}

\* ------------------------------------------------------------ credentials
Username == "user1"

Password == "pass1"

\* ------------------------------------------------------------ inputs, forms
\* An attribute that is not there.
Absent == "<absent>"

Input(t, n, i, v) == [type |-> t, name |-> n, id |-> i, value |-> v]

HiddenCsrf == Input("hidden", "csrf", Absent, "abc")

HiddenCsrf2 == Input("hidden", "csrf", Absent, "def")

HiddenUserToken == Input("hidden", "user_token", Absent, "xyz")

TextUsername == Input("text", "username", Absent, Absent)

TextEmail == Input("text", "email", Absent, Absent)

TextIdOnly == Input("text", Absent, "user", Absent)

TextQuery == Input("text", "q", Absent, Absent)

PasswordInput == Input("password", "password", Absent, Absent)

PasswordNoName == Input("password", Absent, Absent, Absent)

SubmitButton == Input("submit", "go", Absent, "Login")

\* re.compile(r'user', re.I) and the like, searched in an attribute value:
\* the values of the inputs above that each pattern matches.
MatchesUser(v) == v \in {"username", "user_token", "user"}

MatchesEmail(v) == v \in {"email"}

MatchesLogin(v) == v \in {"login"}

Form(inputs, action) == [present |-> TRUE, inputs |-> inputs, action |-> action]

NoForm == [present |-> FALSE, inputs |-> <<>>, action |-> RefAbsent]

RangeOf(s) == {s[i] : i \in DOMAIN s}

\* _has_login_fields(soup) on a set of inputs: the inputs of the whole
\* document it is given.
HasLoginFields(inputs) ==
  /\ \E i \in inputs : MatchesUser(i.name) \/ MatchesEmail(i.name) \/ MatchesLogin(i.name)
  /\ \E i \in inputs : i.type = "password"

\* The inputs of a page: those of its first form and those outside it.
PageInputs(p) == RangeOf(p.form.inputs) \cup RangeOf(p.others)

\* `form and self._has_login_fields(soup)`, soup being the page.
FormGate(p) == p.form.present /\ HasLoginFields(PageInputs(p))

\* The glossary's login-capable form: the form itself has both inputs.
LoginCapable(f) == f.present /\ HasLoginFields(RangeOf(f.inputs))

\* ------------------------------------------------------------ _submit_login_form
\* form_data, a dict: names to values, a later assignment replacing an
\* earlier one.
EmptyData == [k \in {} |-> ""]

Put(d, k, v) == [x \in DOMAIN d \cup {k} |-> IF x = k THEN v ELSE d[x]]

NoInput == Input(Absent, Absent, Absent, Absent)

\* The indices of the inputs of s that are of type t.
OfType(s, t) == {i \in DOMAIN s : s[i].type = t}

Least(S) == CHOOSE i \in S : \A j \in S : i <= j

\* `for hidden in form.find_all('input', type='hidden')`, the first k inputs
\* done: every named hidden input assigns its value ('' when it has none).
RECURSIVE HiddenFields(_, _)
HiddenFields(inputs, k) ==
  IF k = 0 THEN EmptyData
  ELSE LET d == HiddenFields(inputs, k - 1)
           h == inputs[k]
       IN  IF h.type = "hidden" /\ h.name # Absent
           THEN Put(d, h.name, IF h.value = Absent THEN "" ELSE h.value)
           ELSE d

\* username_patterns, in order; form.find('input', attrs=pattern) is the
\* first input (document order) the pattern matches.
UsernamePatternMatches(k, i) ==
  CASE k = 1 -> MatchesUser(i.name)
    [] k = 2 -> MatchesEmail(i.name)
    [] k = 3 -> MatchesLogin(i.name)
    [] k = 4 -> i.name = "username"
    [] OTHER -> MatchesUser(i.id)

NumUsernamePatterns == 5

FindByPattern(inputs, k) ==
  LET hits == {i \in DOMAIN inputs : UsernamePatternMatches(k, inputs[i])}
  IN  IF hits = {} THEN NoInput ELSE inputs[Least(hits)]

UsernameField(inputs) ==
  LET ks == {k \in 1..NumUsernamePatterns : FindByPattern(inputs, k) # NoInput}
  IN  IF ks = {} THEN NoInput ELSE FindByPattern(inputs, Least(ks))

\* form.find('input', attrs={'type': 'password'}).
PasswordField(inputs) ==
  IF OfType(inputs, "password") = {} THEN NoInput
  ELSE inputs[Least(OfType(inputs, "password"))]

\* The first submit input with a name and a value.
SubmitField(inputs) ==
  LET hits == {i \in OfType(inputs, "submit") :
                 inputs[i].name # Absent /\ inputs[i].value # Absent}
  IN  IF hits = {} THEN NoInput ELSE inputs[Least(hits)]

\* `action = form.get('action', '')`, then the page URL when it is empty and
\* urljoin when it does not start with 'http'.
ActionUrl(form, form_url) ==
  IF form.action.kind \in {"absent", "empty"} THEN form_url
  ELSE IF form.action.kind = "absolute" THEN Url(form.action.host, form.action.path)
  ELSE urljoin(form_url, form.action)

\* form_data as _submit_login_form fills it: hidden fields, then the
\* username, then the password, then the submit button.
FormData(form) ==
  LET u  == UsernameField(form.inputs)
      p  == PasswordField(form.inputs)
      b  == SubmitField(form.inputs)
      d0 == HiddenFields(form.inputs, Len(form.inputs))
      d1 == IF u # NoInput THEN Put(d0, u.name, Username) ELSE d0
      d2 == IF p # NoInput THEN Put(d1, p.name, Password) ELSE d1
  IN  IF b # NoInput THEN Put(d2, b.name, b.value) ELSE d2

\* username_field['name'] and password_field['name'] raise KeyError on an
\* input that has no name; the function's except clause then returns False
\* before any request is sent.
FormDataFaults(form) ==
  \/ UsernameField(form.inputs) # NoInput /\ UsernameField(form.inputs).name = Absent
  \/ PasswordField(form.inputs) # NoInput /\ PasswordField(form.inputs).name = Absent

\* The POST _submit_login_form sends for a form found on a page.
PostRequest(form, form_url) ==
  [url |-> ActionUrl(form, form_url), data |-> FormData(form)]

NoRequest == [url |-> Url("", <<>>), data |-> EmptyData]

\* ------------------------------------------------------------ page text
\* A page's text is the set of words it holds and its length. str.lower()
\* and the substring test `indicator in text` are tabulated on these words.
Words ==
  {"Dashboard", "Aftaler", "logout", "error", "invalid", "Login", "password",
   "SFOWeb", "velkommen"}

Lower(w) ==
  CASE w = "Dashboard" -> "dashboard"
    [] w = "Aftaler"   -> "aftaler"
    [] w = "Login"     -> "login"
    [] w = "SFOWeb"    -> "sfoweb"
    [] w = "Dato"      -> "dato"
    [] w = "Hvad"      -> "hvad"
    [] w = "Tid"       -> "tid"
    [] w = "Kommentar" -> "kommentar"
    [] w = "Selvbestemmer" -> "selvbestemmer"
    [] w = "Ferie"     -> "ferie"
    [] w = "Note"      -> "note"
    [] w = "Husk login" -> "husk login"
    [] w = "Der er ingen aktive aftaler" -> "der er ingen aktive aftaler"
    [] w = "Fodbold 12/6 kl. 14" -> "fodbold 12/6 kl. 14"
    [] w = "Svømning torsdag" -> "svømning torsdag"
    [] w = "Torsdag 12/6" -> "torsdag 12/6"
    [] w = "Menu"      -> "menu"
    [] w = "Brugernavn" -> "brugernavn"
    [] w = "Sign in"   -> "sign in"
    [] w = "Log på"    -> "log på"
    [] w = "Svømning for 3. klasse i svømmehallen, husk badetøj og håndklæde"
         -> "svømning for 3. klasse i svømmehallen, husk badetøj og håndklæde"
    [] w = "Svømning for 3. klasse i svømmehallen, husk badetøj og madpakke"
         -> "svømning for 3. klasse i svømmehallen, husk badetøj og madpakke"
    [] OTHER           -> w

\* `a in b` for two lower-cased strings: equality, or one of the proper
\* substrings that occur among the words above.
IsSubstring(a, b) ==
  \/ a = b
  \/ <<a, b>> \in {<<"aftale", "aftaler">>, <<"sfo", "sfoweb">>,
                    <<"login", "husk login">>,
                    <<"aftale", "der er ingen aktive aftaler">>,
                    <<"ingen", "der er ingen aktive aftaler">>}

\* `len(html) > 1000`.
MinLength == 1000

ShortLength == MinLength - 600

LongLength == MinLength + 1

Lengths == {ShortLength, MinLength, LongLength}

Text(words, len) == [words |-> words, len |-> len]

\* `indicator in html.lower()`.
ContainsLower(text, indicator) ==
  \E w \in text.words : IsSubstring(indicator, Lower(w))

\* `"soestjernen" in html.lower() or "sfo" in html.lower()`.
LooksLikeSfo(text) ==
  ContainsLower(text, "soestjernen") \/ ContainsLower(text, "sfo")

success_indicators ==
  {"appointment", "aftale", "tabel", "kalender", "logout", "logud", "dashboard",
   "schedule"}

login_indicators == {"login", "password", "brugernavn", "sign in"}

\* What _verify_authentication decides about the text of one 200 response.
PageVerified(text) ==
  \/ \E i \in success_indicators : ContainsLower(text, i)
  \/ /\ ~ \E i \in login_indicators : ContainsLower(text, i)
     /\ text.len > MinLength

\* ------------------------------------------------------------ sample pages
\* Anchors: an href and the anchor's lower-cased text.
Anchor(href, text) == [href |-> href, text |-> text]

ParentAnchor == Anchor(RefRooted(<<"parent">>), "forældre")

GuardianAnchor == Anchor(RefRooted(<<"guardian">>), "guardians")

UniAnchor == Anchor(RefRooted(<<"uni">>), "uni login")

Anchors == {ParentAnchor, GuardianAnchor, UniAnchor}

\* `keyword in s` on the hrefs and texts of the anchors above.
HrefHas(a, keyword) ==
  \/ keyword = "parent" /\ a.href.path = <<"parent">>
  \/ keyword = "guardian" /\ a.href.path = <<"guardian">>

TextHas(a, keyword) ==
  \/ a.text = keyword
  \/ keyword = "guardian" /\ a.text = "guardians"

\* _handle_sfo_login's test of an anchor.
IsSfoParentLink(a) ==
  \/ HrefHas(a, "parent") \/ HrefHas(a, "foraeldr")
  \/ TextHas(a, "parent") \/ TextHas(a, "forældre")

\* _find_parent_login_links's test of an anchor.
IsParentLoginLink(a) ==
  \/ \E k \in {"forældre", "parent", "guardians"} : TextHas(a, k)
  \/ \E k \in {"parent", "foraeldr", "guardian"} : HrefHas(a, k)

\* _handle_parent_login_page's test of an anchor.
IsLoginMethod(a) ==
  \E k \in {"forældre login", "parent login", "uni login"} : TextHas(a, k)

SfoParentLinks(anchors) == SelectSeq(anchors, IsSfoParentLink)

FindParentLoginLinks(anchors) == SelectSeq(anchors, IsParentLoginLink)

LoginMethods(anchors) == SelectSeq(anchors, IsLoginMethod)

\* Sequences over S of length at most n.
SeqsUpTo(S, n) == UNION {[1..k -> S] : k \in 0..n}

LoginForm == Form(<<HiddenCsrf, TextUsername, PasswordInput>>, RefEmpty)

ParentForm == Form(<<TextUsername, PasswordInput>>, RefRooted(<<"do-login">>))

SearchForm == Form(<<TextQuery>>, RefRooted(<<"search">>))

\* The first form of a page and the inputs the page has outside it.
FormVariants ==
  { [form |-> NoForm,     others |-> <<>>],
    [form |-> LoginForm,  others |-> <<>>],
    [form |-> ParentForm, others |-> <<>>],
    [form |-> SearchForm, others |-> <<>>],
    [form |-> SearchForm, others |-> <<TextUsername, PasswordInput>>] }

MetaVariants == { <<>>, << RefRooted(<<"login">>) >> }

\* What the AJAX patterns find in a page with n matches: the same two
\* script URLs, matched again and again.
EndpointRefs == << RefRooted(<<"api", "login.php">>), RefRooted(<<"auth.php">>) >>

Endpoints(n) == [i \in 1..n |-> EndpointRefs[((i - 1) % 2) + 1]]

Page(text, fv, anchors, metas, endpoints) ==
  [text |-> text, form |-> fv.form, others |-> fv.others, anchors |-> anchors,
   metas |-> metas, endpoints |-> endpoints]

NoPage == Page(Text({}, ShortLength), [form |-> NoForm, others |-> <<>>], <<>>, <<>>, <<>>)

SfoText == Text({"SFOWeb", "Login"}, ShortLength)

OtherText == Text({"velkommen"}, ShortLength)

\* Pages with forms and anchors, as the login strategies read them.
LoginPages ==
  { Page(SfoText, fv, a, <<>>, <<>>) : fv \in FormVariants, a \in SeqsUpTo(Anchors, MaxLinks) }

\* Pages of which only the form is read.
FormPages == { Page(SfoText, fv, <<>>, <<>>, <<>>) : fv \in FormVariants }

\* The pages a GET of the detection flow is answered with.
DetectPages == LoginPages \cup { Page(OtherText, [form |-> LoginForm, others |-> <<>>], <<>>, <<>>, <<>>) }

\* The pages a GET of the direct-form strategy is answered with.
StandardPages ==
  { Page(SfoText, fv, a, m, <<>>) :
      fv \in FormVariants, a \in SeqsUpTo(Anchors, MaxLinks), m \in MetaVariants }

\* The pages a GET of the AJAX strategy is answered with.
AjaxPages ==
  { Page(SfoText, [form |-> NoForm, others |-> <<>>], <<>>, <<>>, Endpoints(n)) :
      n \in 0..MaxEndpoints }

\* The pages a GET of _verify_authentication is answered with.
VerifyTexts ==
  { Text({"Dashboard"}, ShortLength), Text({"Dashboard", "error"}, ShortLength),
    Text({"Login", "password"}, LongLength), Text({"velkommen"}, MinLength),
    Text({"velkommen"}, LongLength) }

VerifyPages == { Page(t, [form |-> NoForm, others |-> <<>>], <<>>, <<>>, <<>>) : t \in VerifyTexts }

\* ------------------------------------------------------------ responses
Statuses == {200, 302, 404}

Raise == [kind |-> "raise", status |-> 0, url |-> Url("", <<>>), page |-> NoPage]

Response(status, url, page) == [kind |-> "response", status |-> status, url |-> url, page |-> page]

\* Every outcome of a request for url: a transport error or timeout, a
\* status other than 200, or 200 with a page, at the URL asked for or at the
\* one the portal redirected to.
Outcomes(url, pages) ==
  {Raise}
    \cup { Response(s, url, NoPage) : s \in Statuses \ {200} }
    \cup { Response(200, u, p) : u \in FinalUrls(url), p \in pages }

\* The same where response.url is not read.
OutcomesAt(url, pages) ==
  {Raise}
    \cup { Response(s, url, NoPage) : s \in Statuses \ {200} }
    \cup { Response(200, url, p) : p \in pages }

Is200(r) == r.kind = "response" /\ r.status = 200

\* ------------------------------------------------------------ appointments
\* A table is its rows, a row its cells' stripped texts.
HeaderRow == <<"Dato", "Hvad", "Tid", "Kommentar">>

BookingRow == <<"2025-06-12", "Selvbestemmer", "14:00-16:00", "Note">>

OtherRow == <<"2025-06-13", "Ferie", "", "">>

NoItemsRow == <<"Der er ingen aktive aftaler">>

NoDateRow == <<"", "Selvbestemmer", "14:00-16:00", "Note">>

LoginNoteRow == <<"2025-06-12", "Selvbestemmer", "14:00-16:00", "Husk login">>

ThreeCellRow == <<"2025-06-12", "Selvbestemmer", "14:00-16:00">>

\* len(text) of the sample strings.
StrLen(t) ==
  CASE t = "" -> 0
    [] t \in {"Tid"} -> 3
    [] t \in {"Dato", "Hvad", "Note", "Menu"} -> 4
    [] t \in {"Ferie"} -> 5
    [] t \in {"Kommentar"} -> 9
    [] t \in {"2025-06-12", "2025-06-13", "Husk login"} -> 10
    [] t \in {"14:00-16:00"} -> 11
    [] t \in {"Torsdag 12/6"} -> 12
    [] t \in {"Selvbestemmer"} -> 13
    [] t \in {"Svømning torsdag"} -> 16
    [] t \in {"Fodbold 12/6 kl. 14"} -> 19
    [] t \in {"Der er ingen aktive aftaler"} -> 27
    [] t \in {"Svømning for 3. klasse i svømmehallen, husk badetøj og madpakke"} -> 63
    [] t \in {"Svømning for 3. klasse i svømmehallen, husk badetøj og håndklæde"} -> 64
    [] OTHER -> 7

\* re.search(r'\d{1,2}[./]\d{1,2}', text) or re.search(r'\d{4}-\d{2}-\d{2}', text)
\* on the sample strings.
HasDatePattern(t) ==
  t \in {"2025-06-12", "2025-06-13", "Fodbold 12/6 kl. 14", "Torsdag 12/6"}

\* class_=re.compile(r'appointment|event|aftale', re.I) on the sample classes.
IsAppointmentClass(c) == c \in {"appointments", "event", "aftaler"}

\* class_=re.compile(r'calendar|event|date', re.I) on the sample classes.
IsCalendarClass(c) == c \in {"calendar-day", "event"}

\* A div, li or span of the page: its class, its own text, and whether the
\* page's tables lie inside it.
Element(tag, class, text, encloses) ==
  [tag |-> tag, class |-> class, text |-> text, encloses |-> encloses]

SampleElements ==
  { Element("div", "appointments", "", TRUE),
    Element("div", "content", "", TRUE),
    Element("div", "event", "Svømning torsdag", FALSE),
    Element("div", "event", "Svømning for 3. klasse i svømmehallen, husk badetøj og håndklæde", FALSE),
    Element("div", "event", "Svømning for 3. klasse i svømmehallen, husk badetøj og madpakke", FALSE),
    Element("li", Absent, "Fodbold 12/6 kl. 14", FALSE),
    Element("li", Absent, "Menu", FALSE),
    Element("span", "calendar-day", "Torsdag 12/6", FALSE) }

\* s[1] \o ... \o s[k].
RECURSIVE Flatten(_, _)
Flatten(s, k) == IF k = 0 THEN <<>> ELSE Flatten(s, k - 1) \o s[k]

\* The cell texts of the tables, in document order.
TableTexts(tables) ==
  Flatten([i \in DOMAIN tables |-> Flatten(tables[i], Len(tables[i]))], Len(tables))

\* element.get_text().strip(), as the pieces of text it is made of (the
\* page is written without white space between its tags).
ElementText(page, e) ==
  IF e.encloses THEN SelectSeq(TableTexts(page.tables), LAMBDA t : t # "")
  ELSE IF e.text = "" THEN <<>> ELSE <<e.text>>

RECURSIVE TextLen(_, _)
TextLen(pieces, k) == IF k = 0 THEN 0 ELSE TextLen(pieces, k - 1) + StrLen(pieces[k])

WhatCap == 50

\* t[:1], t[:2], ... of a cell text t, up to the last proper prefix.
Prefixes(t) ==
  CASE t = "Dato" -> <<"D", "Da", "Dat">>
    [] t = "Hvad" -> <<"H", "Hv", "Hva">>
    [] t = "Tid" -> <<"T", "Ti">>
    [] t = "Kommentar" -> <<"K", "Ko", "Kom", "Komm", "Komme", "Kommen", "Komment",
            "Kommenta">>
    [] t = "2025-06-12" -> <<"2", "20", "202", "2025", "2025-", "2025-0", "2025-06",
            "2025-06-", "2025-06-1">>
    [] t = "2025-06-13" -> <<"2", "20", "202", "2025", "2025-", "2025-0", "2025-06",
            "2025-06-", "2025-06-1">>
    [] t = "Selvbestemmer" -> <<"S", "Se", "Sel", "Selv", "Selvb", "Selvbe", "Selvbes",
            "Selvbest", "Selvbeste", "Selvbestem", "Selvbestemm", "Selvbestemme">>
    [] t = "14:00-16:00" -> <<"1", "14", "14:", "14:0", "14:00", "14:00-", "14:00-1",
            "14:00-16", "14:00-16:", "14:00-16:0">>
    [] t = "Note" -> <<"N", "No", "Not">>
    [] t = "Ferie" -> <<"F", "Fe", "Fer", "Feri">>
    [] t = "Der er ingen aktive aftaler" -> <<"D", "De", "Der", "Der ", "Der e", "Der er",
            "Der er ", "Der er i", "Der er in", "Der er ing", "Der er inge", "Der er ingen",
            "Der er ingen ", "Der er ingen a", "Der er ingen ak", "Der er ingen akt",
            "Der er ingen akti", "Der er ingen aktiv", "Der er ingen aktive",
            "Der er ingen aktive ", "Der er ingen aktive a", "Der er ingen aktive af",
            "Der er ingen aktive aft", "Der er ingen aktive afta",
            "Der er ingen aktive aftal", "Der er ingen aktive aftale">>
    [] t = "Husk login" -> <<"H", "Hu", "Hus", "Husk", "Husk ", "Husk l", "Husk lo",
            "Husk log", "Husk logi">>

\* t[:k] where 0 < k < len(t): of a cell text at any k, of the two long
\* element texts at the one place the code cuts them.
Prefix(t, k) ==
  IF k = WhatCap /\ t \in {"Svømning for 3. klasse i svømmehallen, husk badetøj og håndklæde",
                          "Svømning for 3. klasse i svømmehallen, husk badetøj og madpakke"}
  THEN "Svømning for 3. klasse i svømmehallen, husk badetø"
  ELSE Prefixes(t)[k]

\* text[:n] of a text made of pieces.
RECURSIVE Slice(_, _)
Slice(pieces, n) ==
  IF n <= 0 \/ pieces = <<>> THEN <<>>
  ELSE IF StrLen(Head(pieces)) <= n
  THEN <<Head(pieces)>> \o Slice(Tail(pieces), n - StrLen(Head(pieces)))
  ELSE <<Prefix(Head(pieces), n)>>

\* text[:50] + "..." if len(text) > 50 else text
Shorten(pieces) ==
  IF TextLen(pieces, Len(pieces)) > WhatCap THEN Slice(pieces, WhatCap) \o <<"...">>
  ELSE pieces

AltRecord(date, time, pieces) ==
  [date |-> date, what |-> Shorten(pieces), time |-> time, comment |-> "",
   full_description |-> pieces]

\* The records one method of _parse_alternative_formats makes of the
\* elements that pass its test.
AltRecords(page, Test(_), date, time) ==
  LET hits == SelectSeq(page.elements, Test)
  IN  [i \in DOMAIN hits |-> AltRecord(date, time, ElementText(page, hits[i]))]

AltCap == 10

\* _parse_alternative_formats(soup).
ParseAlternativeFormats(page) ==
  LET len(e) == TextLen(ElementText(page, e), Len(ElementText(page, e)))
      divs   == AltRecords(page,
                  LAMBDA e : e.tag = "div" /\ IsAppointmentClass(e.class) /\ len(e) > 10,
                  "Unknown", "Unknown")
      items  == AltRecords(page,
                  LAMBDA e : e.tag = "li"
                             /\ \E k \in DOMAIN ElementText(page, e) :
                                  HasDatePattern(ElementText(page, e)[k]),
                  "See description", "See description")
      cal    == AltRecords(page,
                  LAMBDA e : e.tag \in {"div", "span"} /\ IsCalendarClass(e.class) /\ len(e) > 5,
                  "Calendar item", "See description")
      found  == IF divs # <<>> THEN divs ELSE IF items # <<>> THEN items ELSE cal
  IN  SubSeq(found, 1, IF Len(found) < AltCap THEN Len(found) ELSE AltCap)

Appointment(cells) ==
  [date |-> cells[1], what |-> cells[2], time |-> cells[3],
   comment |-> IF Len(cells) > 3 THEN cells[4] ELSE "",
   full_description |-> <<cells[1], " - ", cells[3]>>]

\* The rows of one table after its first: a row of at least 3 cells whose
\* date and category are not empty becomes a record.
RECURSIVE ParseRows(_, _)
ParseRows(rows, k) ==
  IF k <= 1 THEN <<>>
  ELSE LET cells == rows[k]
       IN  IF Len(cells) >= 3 /\ cells[1] # "" /\ cells[2] # ""
           THEN Append(ParseRows(rows, k - 1), Appointment(cells))
           ELSE ParseRows(rows, k - 1)

RECURSIVE ParseTables(_, _)
ParseTables(tables, k) ==
  IF k = 0 THEN <<>>
  ELSE ParseTables(tables, k - 1) \o ParseRows(tables[k], Len(tables[k]))

\* _parse_appointments_html, were it to test the indicators that
\* _verify_authentication tests.
verify_login_indicators == login_indicators

\* `login_indicators` of _parse_appointments_html.
parse_login_indicators == {"login", "password", "brugernavn", "sign in", "log på"}

\* soup.get_text(): the text outside the tables, the cells and the elements.
PageText(page) ==
  Text(page.text.words \cup RangeOf(TableTexts(page.tables))
         \cup {page.elements[i].text : i \in DOMAIN page.elements},
       page.text.len)

\* _parse_appointments_html(html).
ParseAppointmentsHtml(page) ==
  IF \E i \in parse_login_indicators : ContainsLower(PageText(page), i) THEN <<>>
  ELSE LET rows == ParseTables(page.tables, Len(page.tables))
       IN  IF rows # <<>> THEN rows ELSE ParseAlternativeFormats(page)

AppointmentPage(text, tables, elements) ==
  [text |-> text, tables |-> tables, elements |-> elements]

AppointmentPages ==
  { AppointmentPage(Text({"Aftaler"}, ShortLength), <<>>, <<>>),
    AppointmentPage(Text({"Aftaler"}, ShortLength), << <<HeaderRow, BookingRow>> >>, <<>>),
    AppointmentPage(Text({"Aftaler"}, ShortLength), << <<HeaderRow, BookingRow, OtherRow>> >>, <<>>),
    AppointmentPage(Text({"Aftaler"}, ShortLength), << <<HeaderRow, NoItemsRow>> >>, <<>>),
    AppointmentPage(Text({"Login"}, ShortLength), << <<HeaderRow, BookingRow>> >>, <<>>) }

NoAppointmentPage == AppointmentPage(Text({}, ShortLength), <<>>, <<>>)

FetchOutcomes(url) ==
  {Raise}
    \cup { Response(s, url, NoAppointmentPage) : s \in Statuses \ {200} }
    \cup { Response(200, url, p) : p \in AppointmentPages }

\* ------------------------------------------------------------ state
VARIABLES
  call,                 \* the running async_get_appointments call: where it is and its locals
  events,               \* what the call has done so far: first requests and returns
  appointments,         \* the call's `appointments`
  outcome,              \* how the call ended: "none", "returned" or "raised"
  session,              \* the call's aiohttp session: "none", "open" or "closed"
  data,                 \* coordinator.data, what the sensors publish
  last_update_success,  \* coordinator.last_update_success, the sensors' `available`
  cycle,                \* refresh cycles started
  arg,                  \* SpecVerify, SpecForm: the function's argument
  result                \* SpecVerify, SpecForm: what it returned

vars ==
  <<call, events, appointments, outcome, session, data, last_update_success, cycle,
    arg, result>>

NoUrl == Url("", <<>>)

\* The last form submission of the call.
NoSub ==
  [posted |-> FALSE, form |-> NoForm, pageUrl |-> NoUrl, caller |-> "none",
   request |-> NoRequest, status |-> 0, verdict |-> "none", ret |-> "none"]

\* The credential POSTs the AJAX strategy sent to one endpoint.
NoProbe == [url |-> NoUrl, shapes |-> <<>>, state |-> "none"]

\* The cookie jar of a call's session, as far as the portal can tell: empty,
\* or holding the session cookie a credential POST was answered with.
EmptyJar == "empty"

IdleCall ==
  [pc |-> "idle", strategy |-> "none", idx |-> 0, links |-> <<>>, held |-> NoPage,
   heldUrl |-> NoUrl, form |-> NoForm, formUrl |-> NoUrl, caller |-> "none", vidx |-> 0,
   fmt |-> 0, sub |-> NoSub, probe |-> NoProbe, faulted |-> FALSE, caught |-> FALSE,
   fetched |-> <<>>, loginPosts |-> 0, jar |-> EmptyJar]

Strategies == <<"detect", "standard", "ajax", "oauth">>

StrategyIndex(s) == CHOOSE i \in DOMAIN Strategies : Strategies[i] = s

\* The call and its log, as one value the steps below transform.
Here == [call |-> call, events |-> events]

Commit(st) == call' = st.call /\ events' = st.events

Word(ok) == IF ok THEN "ok" ELSE "fail"

\* A request is about to be sent on behalf of `by`; requests in a row by
\* the same sender are logged once.
Note(ev, by) ==
  IF ev # <<>> /\ ev[Len(ev)] = <<by, "request">> THEN ev
  ELSE Append(ev, <<by, "request">>)

\* ------------------------------------------------------------ the portal
\* What the portal answers to a request is any outcome (Spec) or, against a
\* fixed portal, the one outcome the portal has for that kind of request.
\* An answer apart from the URL it came from: response.url is the URL asked
\* for, or the one the portal redirected to.
Describe(r) ==
  [kind |-> r.kind, status |-> r.status, page |-> r.page,
   moved |-> r.url.path = RedirectTarget(r.url).path]

\* The credential POSTs are answered with a status and, when the portal
\* accepts them, with or without a session cookie.
Posted(status, cookie) ==
  [kind |-> "response", status |-> status, url |-> Url("", <<>>), page |-> NoPage,
   cookie |-> cookie]

PostOutcomes ==
  {Raise} \cup {Posted(404, FALSE)} \cup { Posted(s, c) : s \in {200, 302}, c \in BOOLEAN }

NotFound == Describe(Response(404, LOGIN_URL, NoPage))

Found(page) == Describe(Response(200, LOGIN_URL, page))

Plain(fv, anchors, metas, endpoints) == Page(SfoText, fv, anchors, metas, endpoints)

Formless == [form |-> NoForm, others |-> <<>>]

\* The fixed portals: one answer for each kind of request, whether the
\* login side turns away a request that carries a session cookie, and
\* where (if anywhere) the session itself faults.
Portals ==
  [ detect    : { NotFound,
                  Found(Plain([form |-> LoginForm, others |-> <<>>], <<>>, <<>>, <<>>)),
                  Found(Plain(Formless, <<ParentAnchor>>, <<>>, <<>>)) },
    sfo_link  : { NotFound, Found(Plain(Formless, <<UniAnchor>>, <<>>, <<>>)) },
    form_page : { NotFound, Found(Plain([form |-> ParentForm, others |-> <<>>], <<>>, <<>>, <<>>)) },
    standard  : { NotFound,
                  Found(Plain(Formless, <<GuardianAnchor>>, <<>>, <<>>)),
                  Found(Plain(Formless, <<>>, << RefRooted(<<"login">>) >>, <<>>)) },
    ajax      : { NotFound, Found(Plain(Formless, <<>>, <<>>, Endpoints(1))) },
    post      : { Posted(404, FALSE), Posted(200, TRUE) },
    verify    : { NotFound,
                  Found(Page(Text({"Dashboard"}, ShortLength), Formless, <<>>, <<>>, <<>>)) },
    fetch     : { Describe(Response(404, LOGIN_URL, NoAppointmentPage)),
                  Found(AppointmentPage(Text({"Aftaler"}, ShortLength),
                                        << <<HeaderRow, BookingRow, OtherRow>> >>, <<>>)) },
    members_away : BOOLEAN,
    fault     : {"none", "open", "close"} ]

NoPortal ==
  [detect |-> NotFound, sfo_link |-> NotFound, form_page |-> NotFound, standard |-> NotFound,
   ajax |-> NotFound, post |-> Posted(404, FALSE), verify |-> NotFound, fetch |-> NotFound,
   members_away |-> FALSE, fault |-> "none"]

NoArg ==
  [form |-> NoForm, form_url |-> NoUrl, text |-> Text({}, ShortLength),
   page |-> NoAppointmentPage, scraper |-> "none", username |-> <<>>, password |-> <<>>,
   fixed |-> FALSE, portal |-> NoPortal, op |-> "none", runs |-> <<>>]

\* The requests of the login side: every GET before the credentials are
\* posted.
LoginSide == {"detect", "sfo_link", "form_page", "standard", "ajax"}

\* The fixed portal's answer to a request of kind `site` that carries the
\* call's cookies.
PortalAnswer(site) ==
  IF site \in LoginSide /\ call.jar # EmptyJar /\ arg.portal.members_away THEN NotFound
  ELSE arg.portal[site]

\* The outcomes of a GET of kind `site`, of those the portal may give.
Answers(site, outcomes) ==
  IF arg.fixed THEN { r \in outcomes : Describe(r) = PortalAnswer(site) }
  ELSE outcomes

\* The outcomes of a credential POST.
PostAnswers(outcomes) ==
  IF arg.fixed THEN { r \in outcomes : r = arg.portal.post }
  ELSE outcomes

\* Whether entering ("open") or leaving ("close") the session may fault.
Faults(where) ==
  IF arg.fixed THEN {arg.portal.fault = where}
  ELSE BOOLEAN

\* aiohttp stores the cookies of a response in the session's jar.
Stored(jar, r) ==
  IF r.kind = "response" /\ r.cookie THEN "session" ELSE jar

\* async_get_appointments, were its session to use the jar the call
\* before it left behind.
CookieJarKept(previous) == previous

\* `jar = aiohttp.CookieJar()`: every call starts with an empty jar of its
\* own.
CookieJar(previous) == EmptyJar

\* ------------------------------------------------------------ control flow
\* async_get_appointments, were it to extract whatever the flow returned.
AfterLoginExtractsAnyway(st, login_successful) ==
  LET ev == Append(st.events, <<"flow", Word(login_successful)>>)
      c  == [st.call EXCEPT !.strategy = "none", !.idx = 1, !.links = <<>>, !.held = NoPage,
                            !.heldUrl = NoUrl, !.caller = "none", !.vidx = 0, !.fmt = 0]
  IN  [call |-> [c EXCEPT !.pc = "fetch"], events |-> ev]

\* async_get_appointments after the authentication flow returned.
AfterLogin(st, login_successful) ==
  LET ev == Append(st.events, <<"flow", Word(login_successful)>>)
      c  == [st.call EXCEPT !.strategy = "none", !.idx = 1, !.links = <<>>, !.held = NoPage,
                            !.heldUrl = NoUrl, !.caller = "none", !.vidx = 0, !.fmt = 0]
  IN  IF login_successful
      THEN [call |-> [c EXCEPT !.pc = "fetch"], events |-> ev]
      ELSE [call |-> [c EXCEPT !.pc = "close", !.idx = 0], events |-> ev]

\* _attempt_authentication_flow, were it to go from any failed strategy
\* straight to the last one.
AttemptAuthenticationFlowSkips(st, s, ok) ==
  LET ev   == Append(st.events, <<s, Word(ok)>>)
      i    == StrategyIndex(s)
      last == Strategies[Len(Strategies)]
  IN  IF ok THEN AfterLogin([st EXCEPT !.events = ev], TRUE)
      ELSE IF i = Len(Strategies) THEN AfterLogin([st EXCEPT !.events = ev], FALSE)
      ELSE [call |-> [st.call EXCEPT !.pc = last, !.strategy = last,
                                     !.idx = 1, !.links = <<>>, !.held = NoPage,
                                     !.heldUrl = NoUrl, !.caller = "none", !.vidx = 0,
                                     !.fmt = 0],
            events |-> ev]

\* _attempt_authentication_flow after strategy s returned ok.
AttemptAuthenticationFlow(st, s, ok) ==
  LET ev == Append(st.events, <<s, Word(ok)>>)
      i  == StrategyIndex(s)
  IN  IF ok THEN AfterLogin([st EXCEPT !.events = ev], TRUE)
      ELSE IF i = Len(Strategies) THEN AfterLogin([st EXCEPT !.events = ev], FALSE)
      ELSE [call |-> [st.call EXCEPT !.pc = Strategies[i + 1], !.strategy = Strategies[i + 1],
                                     !.idx = 1, !.links = <<>>, !.held = NoPage,
                                     !.heldUrl = NoUrl, !.caller = "none", !.vidx = 0,
                                     !.fmt = 0],
            events |-> ev]

AjaxCap == 5

Min(a, b) == IF a < b THEN a ELSE b

\* `endpoints[:5]`.
Capped(endpoints) == SubSeq(endpoints, 1, Min(Len(endpoints), AjaxCap))

AjaxFormats == <<"form", "json">>

\* The body _try_ajax_login posts for a data format.
AjaxShape(data_format) ==
  [encoding |-> data_format, fields |-> [username |-> Username, password |-> Password]]

\* _try_ajax_auth, were it to try the same endpoint and data format again
\* for as long as the login fails.
AjaxLoginReturnRetries(st, v) ==
  IF v THEN AttemptAuthenticationFlow([st EXCEPT !.call.probe.state = "succeeded"], "ajax", TRUE)
  ELSE [st EXCEPT !.call.pc = "ajax_login"]

\* _try_ajax_auth after _try_ajax_login returned v for the current endpoint
\* and data format.
AjaxLoginReturn(st, v) ==
  LET c == st.call
      n == Len(c.links)
  IN  IF v THEN AttemptAuthenticationFlow([st EXCEPT !.call.probe.state = "succeeded"], "ajax", TRUE)
      ELSE IF c.fmt < Len(AjaxFormats)
      THEN [st EXCEPT !.call.pc = "ajax_login", !.call.fmt = c.fmt + 1]
      ELSE IF c.idx < n
      THEN [st EXCEPT !.call.pc = "ajax_login", !.call.idx = c.idx + 1, !.call.fmt = 1,
                      !.call.probe.state = "failed"]
      ELSE AttemptAuthenticationFlow([st EXCEPT !.call.probe.state = "failed"], "ajax", FALSE)

\* The strategy a caller of _submit_login_form belongs to.
StrategyOf(caller) ==
  CASE caller \in {"sfo_parent", "sfo_direct", "method"} -> "detect"
    [] caller \in {"std_direct", "std_parent", "std_meta"} -> "standard"
    [] caller = "ajax" -> "ajax"
    [] OTHER -> "oauth"

\* The caller of _submit_login_form after it returned v: every caller
\* returns v itself, but _handle_parent_login_page, which goes on with its
\* next login method when v is false.
SubmitReturn(st, v) ==
  LET c  == st.call
      s1 == [st EXCEPT !.call.sub.ret = Word(v)]
  IN  IF c.caller = "method" /\ ~v /\ c.idx < Len(c.links)
      THEN [s1 EXCEPT !.call.pc = "method", !.call.idx = c.idx + 1]
      ELSE AttemptAuthenticationFlow(s1, StrategyOf(c.caller), v)

\* The caller of _verify_authentication after it returned v.
VerifyReturn(st, v) ==
  IF st.call.caller = "ajax" THEN AjaxLoginReturn(st, v)
  ELSE SubmitReturn([st EXCEPT !.call.sub.verdict = IF v THEN "pass" ELSE "fail"], v)

\* A call of _submit_login_form(session, form, form_url) for a form found
\* on the page at page_url: up to its POST.
CallSubmit(st, form, form_url, page_url, caller) ==
  LET c  == IF caller = "method" THEN st.call
            ELSE [st.call EXCEPT !.idx = 0, !.links = <<>>, !.held = NoPage, !.heldUrl = NoUrl]
      s1 == [st EXCEPT !.call = [c EXCEPT !.form = form, !.formUrl = form_url,
                                          !.caller = caller,
                                          !.sub = [NoSub EXCEPT !.form = form,
                                                                !.pageUrl = page_url,
                                                                !.caller = caller]]]
  IN  IF FormDataFaults(form) THEN SubmitReturn(s1, FALSE)
      ELSE [s1 EXCEPT !.call.pc = "submit"]

\* ------------------------------------------------------------ the call, request by request
\* The call is about to send a request that is not part of a submission
\* under way: the records of the last submission and probe are dropped.
Fresh(by) ==
  [call |-> [call EXCEPT !.sub = NoSub, !.probe = NoProbe, !.form = NoForm, !.formUrl = NoUrl],
   events |-> Note(events, by)]

\* The call is about to send a request of the submission or probe under way.
Continued(by) == [call |-> call, events |-> Note(events, by)]

\* The request was answered with r: whether a request of this call ever
\* raised is remembered.
Answered(r, st) == [st EXCEPT !.call.faulted = @ \/ r.kind = "raise"]

\* The except clause, were it to raise again.
OuterExceptReraises(apps) == [outcome |-> "raised", value |-> apps, caught |-> TRUE]

\* The try/except around the whole of async_get_appointments: the fault is
\* logged and `appointments` returned.
OuterExcept(apps) == [outcome |-> "returned", value |-> apps, caught |-> TRUE]

\* `return appointments`.
Return(apps) == [outcome |-> "returned", value |-> apps, caught |-> FALSE]

\* _handle_sfo_login, were _detect_sfo_system to go on with its last
\* candidate when the page has no form to submit.
SfoDirectTriesLastCandidate(st, page, current_url) ==
  IF FormGate(page) THEN CallSubmit(st, page.form, current_url, current_url, "sfo_direct")
  ELSE [st EXCEPT !.call.pc = "detect", !.call.idx = Len(sfo_urls), !.call.links = <<>>,
                  !.call.held = NoPage, !.call.heldUrl = NoUrl]

\* _handle_sfo_login once no parent link is left: the page's own form.
SfoDirect(st, page, current_url) ==
  IF FormGate(page) THEN CallSubmit(st, page.form, current_url, current_url, "sfo_direct")
  ELSE AttemptAuthenticationFlow(st, "detect", FALSE)

\* The locals a function keeps of the page it parsed: the page without its
\* anchors, and the anchors it follows.
Hold(st, pc, page, url, links) ==
  [st EXCEPT !.call.pc = pc, !.call.idx = 1, !.call.links = links,
             !.call.held = [page EXCEPT !.anchors = <<>>], !.call.heldUrl = url]

\* _handle_sfo_login(session, html, current_url), up to its first request.
HandleSfoLogin(st, page, current_url) ==
  IF SfoParentLinks(page.anchors) # <<>>
  THEN Hold(st, "sfo_link", page, current_url, SfoParentLinks(page.anchors))
  ELSE SfoDirect(st, page, current_url)

\* _handle_parent_login_page(session, html, current_url), up to its first request.
HandleParentLoginPage(st, page, current_url) ==
  IF LoginMethods(page.anchors) # <<>>
  THEN Hold(st, "method", page, current_url, LoginMethods(page.anchors))
  ELSE AttemptAuthenticationFlow(st, "detect", FALSE)

\* _detect_sfo_system goes on with its next candidate: `html` keeps the
\* text of the last page that answered 200.
NextCandidate(st, r) ==
  [st EXCEPT !.call.idx = @ + 1, !.call.held = IF Is200(r) THEN r.page ELSE @]

\* _detect_sfo_system: GET sfo_urls[idx].
Detect ==
  /\ call.pc = "detect"
  /\ \E r \in Answers("detect", Outcomes(sfo_urls[call.idx], DetectPages)) :
       LET st == Fresh("detect")
       IN  Commit(Answered(r, IF Is200(r) /\ LooksLikeSfo(r.page.text)
                  THEN HandleSfoLogin(st, r.page, r.url)
                  ELSE IF call.idx < Len(sfo_urls)
                  THEN NextCandidate(st, r)
                  ELSE AttemptAuthenticationFlow(st, "detect", FALSE)))
  /\ UNCHANGED <<appointments, outcome, session, data, last_update_success, cycle, arg, result>>

\* _handle_sfo_login: GET the idx-th parent link of the held page.
SfoLink ==
  /\ call.pc = "sfo_link"
  /\ LET links == call.links
         href  == ResolveHref(call.heldUrl, links[call.idx].href)
     IN  \E r \in Answers("sfo_link", Outcomes(href, LoginPages)) :
           LET st == Fresh("detect")
           IN  Commit(Answered(r, IF r.kind = "raise" THEN AttemptAuthenticationFlow(st, "detect", FALSE)
                      ELSE IF r.status # 200
                      THEN IF call.idx < Len(links)
                           THEN [st EXCEPT !.call.idx = call.idx + 1]
                           ELSE SfoDirect(st, call.held, call.heldUrl)
                      ELSE IF FormGate(r.page)
                      THEN CallSubmit(st, r.page.form, r.url, r.url, "sfo_parent")
                      ELSE HandleParentLoginPage(st, r.page, r.url)))
  /\ UNCHANGED <<appointments, outcome, session, data, last_update_success, cycle, arg, result>>

\* _handle_parent_login_page: GET the idx-th login method of the held page.
Method ==
  /\ call.pc = "method"
  /\ LET methods == call.links
         url     == ResolveHref(call.heldUrl, methods[call.idx].href)
     IN  \E r \in Answers("form_page", Outcomes(url, FormPages)) :
           LET st == Fresh("detect")
           IN  Commit(Answered(r, IF Is200(r) /\ FormGate(r.page)
                      THEN CallSubmit(st, r.page.form, r.url, r.url, "method")
                      ELSE IF call.idx < Len(methods)
                      THEN [st EXCEPT !.call.idx = call.idx + 1]
                      ELSE AttemptAuthenticationFlow(st, "detect", FALSE)))
  /\ UNCHANGED <<appointments, outcome, session, data, last_update_success, cycle, arg, result>>

\* _try_standard_form_auth once the login page's parent links are done:
\* its meta redirects.
StdMetas(st, page, url) ==
  IF page.metas # <<>>
  THEN Hold(st, "std_meta", page, url, <<>>)
  ELSE AttemptAuthenticationFlow(st, "standard", FALSE)

\* _try_standard_form_auth: GET LOGIN_URL.
Standard ==
  /\ call.pc = "standard"
  /\ \E r \in Answers("standard", Outcomes(LOGIN_URL, StandardPages)) :
       LET st == Fresh("standard")
       IN  Commit(Answered(r, IF ~Is200(r) THEN AttemptAuthenticationFlow(st, "standard", FALSE)
                  ELSE IF FormGate(r.page)
                  THEN CallSubmit(st, r.page.form, r.url, r.url, "std_direct")
                  ELSE IF FindParentLoginLinks(r.page.anchors) # <<>>
                  THEN Hold(st, "std_link", r.page, r.url, FindParentLoginLinks(r.page.anchors))
                  ELSE StdMetas(st, r.page, r.url)))
  /\ UNCHANGED <<appointments, outcome, session, data, last_update_success, cycle, arg, result>>

\* _try_standard_form_auth: GET the idx-th parent link of the login page.
StdLink ==
  /\ call.pc = "std_link"
  /\ LET links == call.links
         url   == ResolveHref(call.heldUrl, links[call.idx].href)
     IN  \E r \in Answers("form_page", Outcomes(url, FormPages)) :
           LET st == Fresh("standard")
           IN  Commit(Answered(r, IF r.kind = "raise" THEN AttemptAuthenticationFlow(st, "standard", FALSE)
                      ELSE IF r.status = 200 /\ FormGate(r.page)
                      THEN CallSubmit(st, r.page.form, r.url, r.url, "std_parent")
                      ELSE IF call.idx < Len(links)
                      THEN [st EXCEPT !.call.idx = call.idx + 1]
                      ELSE StdMetas(st, call.held, call.heldUrl)))
  /\ UNCHANGED <<appointments, outcome, session, data, last_update_success, cycle, arg, result>>

\* _try_standard_form_auth: GET the idx-th meta redirect of the login page.
StdMeta ==
  /\ call.pc = "std_meta"
  /\ LET url == urljoin(call.heldUrl, call.held.metas[call.idx])
     IN  \E r \in Answers("form_page", Outcomes(url, FormPages)) :
           LET st == Fresh("standard")
           IN  Commit(Answered(r, IF r.kind = "raise" THEN AttemptAuthenticationFlow(st, "standard", FALSE)
                      ELSE IF r.status = 200 /\ FormGate(r.page)
                      THEN CallSubmit(st, r.page.form, r.url, r.url, "std_meta")
                      ELSE IF call.idx < Len(call.held.metas)
                      THEN [st EXCEPT !.call.idx = call.idx + 1]
                      ELSE AttemptAuthenticationFlow(st, "standard", FALSE)))
  /\ UNCHANGED <<appointments, outcome, session, data, last_update_success, cycle, arg, result>>

\* _try_ajax_auth: GET LOGIN_URL and collect the endpoints.
Ajax ==
  /\ call.pc = "ajax"
  /\ \E r \in Answers("ajax", Outcomes(LOGIN_URL, AjaxPages)) :
       LET st == Fresh("ajax")
       IN  Commit(Answered(r, IF Is200(r) /\ Capped(r.page.endpoints) # <<>>
                  THEN [st EXCEPT !.call.pc = "ajax_login", !.call.idx = 1, !.call.fmt = 1,
                                  !.call.links = Capped(r.page.endpoints),
                                  !.call.heldUrl = r.url, !.call.caller = "ajax"]
                  ELSE AttemptAuthenticationFlow(st, "ajax", FALSE)))
  /\ UNCHANGED <<appointments, outcome, session, data, last_update_success, cycle, arg, result>>

\* _try_ajax_login: POST the credentials to the idx-th endpoint in the
\* fmt-th data format.
AjaxLogin ==
  /\ call.pc = "ajax_login"
  /\ \E r \in PostAnswers(PostOutcomes) :
       LET endpoint == ResolveHref(call.heldUrl, call.links[call.idx])
           shape == AjaxShape(AjaxFormats[call.fmt])
           probe == IF call.probe.state = "open"
                    THEN [call.probe EXCEPT !.shapes = Append(@, shape)]
                    ELSE [url |-> endpoint, shapes |-> <<shape>>, state |-> "open"]
           st    == [call |-> [call EXCEPT !.probe = probe, !.jar = Stored(@, r)],
                     events |-> Note(events, "ajax")]
       IN  Commit(Answered(r, IF r.kind = "response" /\ r.status \in {200, 302}
                  THEN [st EXCEPT !.call.pc = "verify", !.call.vidx = 1]
                  ELSE AjaxLoginReturn(st, FALSE)))
  /\ UNCHANGED <<appointments, outcome, session, data, last_update_success, cycle, arg, result>>

\* _try_oauth_flow: GET oauth_endpoints[idx].
OAuth ==
  /\ call.pc = "oauth"
  /\ LET endpoint == oauth_endpoints[call.idx]
     IN  \E r \in Answers("form_page", Outcomes(endpoint, FormPages)) :
           LET st == Fresh("oauth")
           IN  Commit(Answered(r, IF Is200(r) /\ FormGate(r.page)
                      THEN CallSubmit(st, r.page.form, endpoint, r.url, "oauth")
                      ELSE IF call.idx < Len(oauth_endpoints)
                      THEN [st EXCEPT !.call.idx = call.idx + 1]
                      ELSE AttemptAuthenticationFlow(st, "oauth", FALSE)))
  /\ UNCHANGED <<appointments, outcome, session, data, last_update_success, cycle, arg, result>>

\* _submit_login_form, were it to take an accepted POST for a login.
SubmitAnsweredTrustsStatus(st, r) ==
  SubmitReturn(st, r.kind = "response" /\ r.status \in {200, 302})

\* Whether a submission is that of the form found at LOGIN_URL, posted to
\* LOGIN_URL (1) or not (0): the call counts these, LOGIN_URL being the
\* one page that two strategies request by name (the last of sfo_urls and
\* the direct-form strategy's GET).
LoginPagePost(page_url, action) ==
  IF page_url = LOGIN_URL /\ action = LOGIN_URL THEN 1 ELSE 0

\* _submit_login_form after the POST was answered with r.
SubmitAnswered(st, r) ==
  IF r.kind = "response" /\ r.status \in {200, 302}
  THEN [st EXCEPT !.call.pc = "verify", !.call.vidx = 1]
  ELSE SubmitReturn(st, FALSE)

\* _submit_login_form: POST the form data to the action URL.
SubmitLoginForm ==
  /\ call.pc = "submit"
  /\ \E r \in PostAnswers(PostOutcomes) :
       LET st == Continued(StrategyOf(call.caller))
           rq == PostRequest(call.form, call.formUrl)
           s1 == [st EXCEPT !.call.sub.posted = TRUE,
                            !.call.sub.request = rq,
                            !.call.sub.status = r.status,
                            !.call.loginPosts = @ + LoginPagePost(call.sub.pageUrl, rq.url),
                            !.call.jar = Stored(@, r)]
       IN  Commit(Answered(r, SubmitAnswered(s1, r)))
  /\ UNCHANGED <<appointments, outcome, session, data, last_update_success, cycle, arg, result>>

\* _verify_authentication: GET test_urls[vidx].
Verify ==
  /\ call.pc = "verify"
  /\ \E r \in Answers("verify", OutcomesAt(test_urls[call.vidx], VerifyPages)) :
       LET st == Continued(StrategyOf(call.caller))
       IN  Commit(Answered(r, IF Is200(r) /\ PageVerified(r.page.text) THEN VerifyReturn(st, TRUE)
                  ELSE IF call.vidx < Len(test_urls)
                  THEN [st EXCEPT !.call.vidx = call.vidx + 1]
                  ELSE VerifyReturn(st, FALSE)))
  /\ UNCHANGED <<appointments, outcome, session, data, last_update_success, cycle, arg, result>>

\* _fetch_appointments_data, were it to return after its first candidate.
FetchReturnsAfterFirst(parsed, idx) == TRUE

\* _fetch_appointments_data returns after candidate idx gave `parsed`: at
\* the first candidate with a record, or after the last one.
FetchReturns(parsed, idx) == parsed # <<>> \/ idx = Len(appointment_urls)

\* _fetch_appointments_data: GET appointment_urls[idx] and parse the page.
Fetch ==
  /\ call.pc = "fetch"
  /\ \E r \in Answers("fetch", FetchOutcomes(appointment_urls[call.idx])) :
       LET parsed == IF Is200(r) THEN ParseAppointmentsHtml(r.page)
                     ELSE <<>>
           asked  == [url |-> appointment_urls[call.idx], records |-> parsed]
           st     == [Fresh("extract") EXCEPT !.call.fetched = Append(@, asked)]
       IN  IF FetchReturns(parsed, call.idx)
           THEN /\ Commit(Answered(r, [st EXCEPT !.call.pc = "close", !.call.idx = 0]))
                /\ appointments' = parsed
           ELSE /\ Commit(Answered(r, [st EXCEPT !.call.idx = call.idx + 1]))
                /\ appointments' = appointments
  /\ UNCHANGED <<outcome, session, data, last_update_success, cycle, arg, result>>

\* async_get_appointments: `return appointments` leaves the session's
\* `async with`; a fault raised on the way out lands in the except clause.
Close ==
  /\ call.pc = "close"
  /\ \E fault \in Faults("close") :
       LET end == IF fault THEN OuterExcept(appointments) ELSE Return(appointments)
       IN  /\ outcome' = end.outcome
           /\ appointments' = end.value
           /\ call' = [call EXCEPT !.pc = "done", !.caught = end.caught]
  /\ session' = "closed"
  /\ UNCHANGED <<events, data, last_update_success, cycle, arg, result>>

\* _async_update_data calls async_get_appointments, which opens its session
\* (a fault there lands in the except clause) and enters the
\* authentication flow.
UpdateData ==
  /\ call.pc = "idle"
  /\ cycle < MaxCycles
  /\ cycle' = cycle + 1
  /\ events' = <<>>
  /\ \E fault \in Faults("open") :
       IF fault
       THEN /\ call' = [IdleCall EXCEPT !.pc = "done", !.caught = TRUE]
            /\ outcome' = OuterExcept(<<>>).outcome
            /\ appointments' = OuterExcept(<<>>).value
            /\ session' = "none"
       ELSE /\ call' = [IdleCall EXCEPT !.pc = "detect", !.strategy = "detect", !.idx = 1,
                                        !.jar = CookieJar(call.jar)]
            /\ outcome' = "none"
            /\ appointments' = <<>>
            /\ session' = "open"
  /\ UNCHANGED <<data, last_update_success, arg, result>>

\* _async_update_data once async_get_appointments ended: the list is
\* returned, an exception becomes UpdateFailed.
AsyncUpdateData(ended, value) ==
  IF ended = "raised" THEN [failed |-> TRUE, value |-> <<>>]
  ELSE [failed |-> FALSE, value |-> value]

\* The coordinator, were it to add the returned list to the one it holds.
RefreshedMerges(previous, returned) == previous \o returned

\* coordinator.data after a refresh whose _async_update_data returned
\* `returned`: that list, whatever the coordinator held before.
Refreshed(previous, returned) == returned

\* SFOWebAppointmentsSensor.native_value and extra_state_attributes: the
\* number of records of coordinator.data and, record by record, their
\* fields.
SensorState(coordinator_data) ==
  [native_value |-> Len(coordinator_data),
   appointments |-> [i \in DOMAIN coordinator_data |->
                       [date |-> coordinator_data[i].date,
                        time |-> coordinator_data[i].time,
                        what |-> coordinator_data[i].what,
                        comment |-> coordinator_data[i].comment,
                        description |-> coordinator_data[i].full_description]]]

\* The coordinator's refresh ends: a returned list replaces coordinator.data,
\* UpdateFailed leaves it and clears last_update_success.
FinishUpdate ==
  /\ call.pc = "done"
  /\ LET u == AsyncUpdateData(outcome, appointments)
     IN  /\ data' = IF u.failed THEN data ELSE Refreshed(data, u.value)
         /\ last_update_success' = ~u.failed
  /\ call' = [call EXCEPT !.pc = "idle"]
  /\ UNCHANGED <<events, appointments, outcome, session, cycle, arg, result>>

NoResult ==
  [state |-> "none", verdict |-> FALSE, request |-> NoRequest, records |-> <<>>,
   requests |-> <<>>]

\* No refresh has run yet.
Quiet ==
  /\ call = IdleCall
  /\ events = <<>>
  /\ appointments = <<>>
  /\ outcome = "none"
  /\ session = "none"
  /\ data = <<>>
  /\ last_update_success = TRUE
  /\ cycle = 0

Init ==
  /\ Quiet
  /\ arg = NoArg
  /\ result = NoResult

Next ==
  \/ UpdateData
  \/ Detect
  \/ SfoLink
  \/ Method
  \/ Standard
  \/ StdLink
  \/ StdMeta
  \/ Ajax
  \/ AjaxLogin
  \/ OAuth
  \/ SubmitLoginForm
  \/ Verify
  \/ Fetch
  \/ Close
  \/ FinishUpdate

Spec == Init /\ [][Next]_vars

\* ------------------------------------------------------------ SpecCall
\* One refresh, and so one async_get_appointments call, against the portal
\* of Spec: the last of the refresh cycles, taken alone.
InitCall ==
  /\ call = IdleCall
  /\ events = <<>>
  /\ appointments = <<>>
  /\ outcome = "none"
  /\ session = "none"
  /\ data = <<>>
  /\ last_update_success = TRUE
  /\ cycle = MaxCycles - 1
  /\ arg = NoArg
  /\ result = NoResult

SpecCall == InitCall /\ [][Next]_vars

\* ------------------------------------------------------------ SpecTwice
\* The same refresh cycles against each of the fixed portals: every call
\* of a behaviour meets the same answers.
InitTwice ==
  /\ Quiet
  /\ arg \in { [NoArg EXCEPT !.fixed = TRUE, !.portal = p] : p \in Portals }
  /\ result = NoResult

SpecTwice == InitTwice /\ [][Next]_vars

\* ------------------------------------------------------------ SpecVerify
\* _verify_authentication's judgment of one page, on every text over Words.
Texts == { Text(ws, l) : ws \in SUBSET Words, l \in Lengths }

InitVerify ==
  /\ Quiet
  /\ arg \in { [NoArg EXCEPT !.text = t] : t \in Texts }
  /\ result = NoResult

VerifyPage ==
  /\ result.state = "none"
  /\ result' = [result EXCEPT !.state = "judged", !.verdict = PageVerified(arg.text)]
  /\ UNCHANGED <<call, events, appointments, outcome, session, data, last_update_success,
                 cycle, arg>>

SpecVerify == InitVerify /\ [][VerifyPage]_vars

\* ------------------------------------------------------------ SpecForm
\* _submit_login_form's request, on every form of at most MaxInputs inputs.
FormInputs ==
  {HiddenCsrf, HiddenCsrf2, HiddenUserToken, TextUsername, TextEmail, TextIdOnly,
   PasswordInput, PasswordNoName, SubmitButton}

FormActions ==
  {RefAbsent, RefEmpty, RefRooted(<<"do-login">>), RefRelative(<<"login.php">>),
   RefAbsolute(Url("login.aula.dk", <<"auth">>))}

FormUrls == {Url(PortalHost, <<"parent", "login">>), LOGIN_URL}

InitForm ==
  /\ Quiet
  /\ arg \in { [NoArg EXCEPT !.form = Form(i, a), !.form_url = u] :
                 i \in SeqsUpTo(FormInputs, MaxInputs), a \in FormActions, u \in FormUrls }
  /\ result = NoResult

SubmitForm ==
  /\ result.state = "none"
  /\ result' = IF FormDataFaults(arg.form) THEN [result EXCEPT !.state = "fault"]
               ELSE [result EXCEPT !.state = "posted",
                                   !.request = PostRequest(arg.form, arg.form_url)]
  /\ UNCHANGED <<call, events, appointments, outcome, session, data, last_update_success,
                 cycle, arg>>

SpecForm == InitForm /\ [][SubmitForm]_vars

\* ------------------------------------------------------------ SpecParse
\* _parse_appointments_html on every page of one table of at most MaxRows
\* data rows, with at most MaxElements divs, list items and spans.
DataRows ==
  {BookingRow, OtherRow, NoItemsRow, NoDateRow, LoginNoteRow, ThreeCellRow}

SampleTables == { <<HeaderRow>> \o rows : rows \in SeqsUpTo(DataRows, MaxRows) }

ParsePages ==
  { AppointmentPage(Text({"Aftaler"}, ShortLength), <<t>>, e) :
      t \in SampleTables, e \in SeqsUpTo(SampleElements, MaxElements) }

InitParse ==
  /\ Quiet
  /\ arg \in { [NoArg EXCEPT !.page = p] : p \in ParsePages }
  /\ result = NoResult

ParsePage ==
  /\ result.state = "none"
  /\ result' = [result EXCEPT !.state = "parsed",
                              !.records = ParseAppointmentsHtml(arg.page)]
  /\ UNCHANGED <<call, events, appointments, outcome, session, data, last_update_success,
                 cycle, arg>>

SpecParse == InitParse /\ [][ParsePage]_vars

\* ------------------------------------------------------------ SpecCreds
\* async_test_credentials of SFOScraper and of SFOJSScraper, on credentials
\* written as their characters.
SampleUsernames ==
  { <<>>, <<"a", "b">>, <<"a", "b", "c">>, <<"u", "s", "e", "r", "1">>,
    <<"m", "o", "r", "@", "x", ".", "d", "k">> }

SamplePasswords ==
  { <<>>, <<"x">>, <<"a", "b", "c">>, <<"a", "b", "c", "d">>, <<"p", "a", "s", "s", "1">> }

Scrapers == {"SFOScraper", "SFOJSScraper"}

MinCredentialLength == 3

\* The two early returns, were the second one missing.
CredentialsRejectedWhenEmpty(username, password) == username = <<>> \/ password = <<>>

\* `not self.username or not self.password`, then
\* `len(self.username) < 3 or len(self.password) < 3`: return False.
CredentialsRejected(username, password) ==
  \/ username = <<>> \/ password = <<>>
  \/ Len(username) < MinCredentialLength \/ Len(password) < MinCredentialLength

\* What async_test_credentials returns once its GET of LOGIN_URL was
\* answered with r.
ProbeVerdict(scraper, r) ==
  IF r.kind = "raise" THEN FALSE
  ELSE IF scraper = "SFOScraper" THEN TRUE
  ELSE r.status = 200

InitCreds ==
  /\ Quiet
  /\ arg \in { [NoArg EXCEPT !.scraper = c, !.username = u, !.password = p] :
                 c \in Scrapers, u \in SampleUsernames, p \in SamplePasswords }
  /\ result = NoResult

\* async_test_credentials up to its request: the early returns, the
\* session (creating it may fault, which the except clause turns into
\* False), the GET of LOGIN_URL.
TestCredentials ==
  /\ result.state = "none"
  /\ \E fault \in BOOLEAN :
       result' =
         IF CredentialsRejected(arg.username, arg.password) \/ fault
         THEN [result EXCEPT !.state = "returned", !.verdict = FALSE]
         ELSE [result EXCEPT !.state = "probing",
                             !.requests = <<[method |-> "GET", url |-> LOGIN_URL,
                                             data |-> EmptyData]>>]
  /\ UNCHANGED <<call, events, appointments, outcome, session, data, last_update_success,
                 cycle, arg>>

\* The GET of LOGIN_URL is answered.
ProbeAnswered ==
  /\ result.state = "probing"
  /\ \E r \in {Raise} \cup {Response(st, LOGIN_URL, NoPage) : st \in Statuses} :
       result' = [result EXCEPT !.state = "returned",
                                !.verdict = ProbeVerdict(arg.scraper, r)]
  /\ UNCHANGED <<call, events, appointments, outcome, session, data, last_update_success,
                 cycle, arg>>

NextCreds == TestCredentials \/ ProbeAnswered

SpecCreds == InitCreds /\ [][NextCreds]_vars

\* ------------------------------------------------------------ SpecPair
\* Two async_get_appointments calls under way at once, their requests
\* interleaved in every order; the portal answers a request by the session
\* cookie it carries.  arg is the accounts of the two calls and the
\* accounts the portal accepts; result is the calls' progress.
Invocations == {1, 2}

Accounts == {"anna", "bo"}

NoCookie == "<none>"

\* The call's session would use one cookie jar kept on the scraper.
SharedJar(i) == 1

\* `jar = aiohttp.CookieJar()` and the ClientSession made with it are
\* locals of the call: call i uses jar i.
JarOf(i) == i

\* The portal's answer to a login POST: the session cookie it sets.
PortalLogin(account, cookie) == IF account \in arg.valid THEN account ELSE cookie

\* The portal's appointments page for a session cookie.
PortalAppointments(cookie) ==
  IF cookie = NoCookie THEN <<>> ELSE <<[date |-> "2025-06-12", what |-> cookie]>>

\* What call i returns when it runs alone.
AloneResult(i) ==
  IF arg.account[i] \in arg.valid THEN PortalAppointments(arg.account[i]) ELSE <<>>

InitPair ==
  /\ Quiet
  /\ arg \in { [account |-> a, valid |-> v] :
                 a \in [Invocations -> Accounts], v \in SUBSET Accounts }
  /\ result = [pc |-> [i \in Invocations |-> "start"],
               jar |-> [i \in Invocations |-> NoCookie],
               sent |-> [i \in Invocations |-> <<>>],
               ret |-> [i \in Invocations |-> <<>>]]

\* The request call i sends now, with the cookies of its jar.
Sends(i, kind) ==
  [result EXCEPT !.sent[i] = Append(@, [kind |-> kind, cookie |-> result.jar[JarOf(i)]])]

\* Call i creates its cookie jar and its session.
PairOpen(i) ==
  /\ result.pc[i] = "start"
  /\ result' = [result EXCEPT !.pc[i] = "login", !.jar[JarOf(i)] = NoCookie]
  /\ UNCHANGED <<call, events, appointments, outcome, session, data, last_update_success,
                 cycle, arg>>

\* Call i posts its credentials; the answer's cookie goes to its jar.
PairLogin(i) ==
  /\ result.pc[i] = "login"
  /\ result' = [Sends(i, "login") EXCEPT
                  !.pc[i] = "verify",
                  !.jar[JarOf(i)] = PortalLogin(arg.account[i], result.jar[JarOf(i)])]
  /\ UNCHANGED <<call, events, appointments, outcome, session, data, last_update_success,
                 cycle, arg>>

\* Call i requests a protected page: the login holds if the portal knows
\* the cookie sent.
PairVerify(i) ==
  /\ result.pc[i] = "verify"
  /\ result' = [Sends(i, "verify") EXCEPT
                  !.pc[i] = IF result.jar[JarOf(i)] # NoCookie THEN "fetch" ELSE "done"]
  /\ UNCHANGED <<call, events, appointments, outcome, session, data, last_update_success,
                 cycle, arg>>

\* Call i requests the appointments page and returns what it parses.
PairFetch(i) ==
  /\ result.pc[i] = "fetch"
  /\ result' = [Sends(i, "fetch") EXCEPT
                  !.pc[i] = "done",
                  !.ret[i] = PortalAppointments(result.jar[JarOf(i)])]
  /\ UNCHANGED <<call, events, appointments, outcome, session, data, last_update_success,
                 cycle, arg>>

NextPair ==
  \/ \E i \in Invocations : PairOpen(i)
  \/ \E i \in Invocations : PairLogin(i)
  \/ \E i \in Invocations : PairVerify(i)
  \/ \E i \in Invocations : PairFetch(i)

SpecPair == InitPair /\ [][NextPair]_vars

\* ------------------------------------------------------------ claims
Happened(e) == \E k \in DOMAIN events : events[k] = e

HappenedBefore(e, k) == \E j \in 1..(k - 1) : events[j] = e

\* C1: async_get_appointments never raises: whatever the portal does (any
\* request may raise, any status, any page) the call ends by returning a
\* list; and when a fault reaches its except clause before extraction has
\* run, the list it returns is empty.
C1_NeverRaises ==
  /\ outcome # "raised"
  /\ call.pc = "done" => outcome = "returned"
  /\ (call.pc = "done" /\ call.caught /\ ~Happened(<<"extract", "request">>))
       => appointments = <<>>

\* Requests raised transport errors, a fault reached the except clause and
\* the call returned the empty list.
C1_Witness ==
  /\ call.pc = "done" /\ call.faulted /\ call.caught
  /\ outcome = "returned" /\ appointments = <<>>

\* C2 (as claimed): a refresh cycle in which no strategy authenticated is
\* reported to the host as failed, so the sensors become unavailable.
C2_AuthFailureIsUpdateFailed ==
  (call.pc = "idle" /\ Happened(<<"flow", "fail">>)) => ~last_update_success

\* C3: extraction is started only after the authentication flow returned
\* success; when the flow returned failure no appointment URL is requested
\* and the call returns the empty list.
C3_ExtractionOnlyAfterLogin ==
  /\ \A k \in DOMAIN events :
       events[k] = <<"extract", "request">> => HappenedBefore(<<"flow", "ok">>, k)
  /\ Happened(<<"flow", "fail">>) =>
       /\ ~Happened(<<"extract", "request">>)
       /\ call.pc \in {"close", "done", "idle"}
       /\ call.pc = "done" => outcome = "returned" /\ appointments = <<>>

\* Extraction is running, after a successful login.
C3_Witness ==
  call.pc = "fetch" /\ call.idx = 2 /\ Happened(<<"extract", "request">>)

\* C4: the strategies run in the order detect, standard, ajax, oauth: a
\* strategy sends a request only after every earlier one returned failure,
\* nothing is requested by a strategy once one returned success or once it
\* returned itself, and the flow fails only after all four failed.
C4_FixedPriorityOrder ==
  \A k \in DOMAIN events :
    LET e == events[k]
    IN  /\ (e[2] = "request" /\ e[1] \in RangeOf(Strategies)) =>
             /\ \A i \in 1..(StrategyIndex(e[1]) - 1) :
                  HappenedBefore(<<Strategies[i], "fail">>, k)
             /\ \A j \in 1..(k - 1) : events[j][2] # "ok"
             /\ ~HappenedBefore(<<e[1], "fail">>, k)
        /\ e = <<"flow", "fail">> =>
             \A i \in DOMAIN Strategies : HappenedBefore(<<Strategies[i], "fail">>, k)

\* The OAuth strategy is sending requests, the three before it having failed.
C4_Witness ==
  call.pc = "oauth" /\ call.idx = 2 /\ Happened(<<"oauth", "request">>)

\* The indicators the claim calls negative.
claimed_negative_indicators == {"invalid", "error"}

\* C5 (as claimed): a page is judged authenticated exactly when it holds a
\* positive indicator and no negative one, or holds no login indicator and
\* is longer than the minimum length.
C5_JudgmentWithNegatives ==
  result.state = "judged" =>
    (result.verdict <=>
       \/ /\ \E i \in success_indicators : ContainsLower(arg.text, i)
          /\ ~ \E i \in claimed_negative_indicators : ContainsLower(arg.text, i)
       \/ /\ ~ \E i \in login_indicators : ContainsLower(arg.text, i)
          /\ arg.text.len > MinLength)

\* C6: a form submission returns true only if its POST was answered 200 or
\* 302 and the verification that followed passed; a POST answered with any
\* other status is not followed by a verification and returns false.
C6_AcceptedIsNotAuthenticated ==
  /\ call.sub.ret = "ok" =>
       call.sub.posted /\ call.sub.status \in {200, 302} /\ call.sub.verdict = "pass"
  /\ (call.sub.posted /\ call.sub.status \notin {200, 302}) =>
       call.sub.ret = "fail" /\ call.sub.verdict = "none" /\ call.pc # "verify"

\* A submission answered 302 whose verification passed returned true.
C6_Witness ==
  call.sub.ret = "ok" /\ call.sub.status = 302 /\ call.sub.verdict = "pass"

\* C7 (as claimed): a form is POSTed only if the form itself has a
\* username-like input and a password input.
C7_OnlyLoginCapableFormsPosted ==
  call.sub.posted => LoginCapable(call.sub.form)

\* The value of the last hidden input named n.
LastHiddenValue(inputs, n) ==
  LET hits == {i \in OfType(inputs, "hidden") : inputs[i].name = n}
      last == CHOOSE i \in hits : \A j \in hits : j <= i
  IN  IF inputs[last].value = Absent THEN "" ELSE inputs[last].value

\* The form has a username-like input that is not hidden.
HasVisibleUsernameInput(inputs) ==
  \E i \in DOMAIN inputs :
    /\ inputs[i].type # "hidden"
    /\ \E k \in 1..NumUsernamePatterns : UsernamePatternMatches(k, inputs[i])

\* C8 (as claimed): the body posted for a login-capable form, whose
\* username-like input is one the user fills in, holds every hidden input's
\* name with its own value (the last one's when a name is repeated), the
\* username under the name of an input that is not hidden and the password
\* under the password input's name.
C8_HiddenFieldsKept ==
  (/\ result.state = "posted"
   /\ LoginCapable(arg.form)
   /\ HasVisibleUsernameInput(arg.form.inputs)) =>
    LET inputs == arg.form.inputs
        body   == result.request.data
    IN  /\ \A i \in OfType(inputs, "hidden") :
             inputs[i].name # Absent =>
               /\ inputs[i].name \in DOMAIN body
               /\ body[inputs[i].name] = LastHiddenValue(inputs, inputs[i].name)
        /\ \E i \in DOMAIN inputs :
             /\ inputs[i].type # "hidden"
             /\ inputs[i].name \in DOMAIN body
             /\ body[inputs[i].name] = Username
        /\ \E i \in OfType(inputs, "password") :
             /\ inputs[i].name \in DOMAIN body
             /\ body[inputs[i].name] = Password

\* C9 (as claimed): a form whose action is empty or absent is POSTed to the
\* URL of the page it was found on, a relative action to that action
\* resolved against the page's URL.
C9_PostsToPageUrl ==
  call.sub.posted =>
    LET a == call.sub.form.action
    IN  /\ a.kind \in {"absent", "empty"} => call.sub.request.url = call.sub.pageUrl
        /\ a.kind \in {"rooted", "relative"} =>
             call.sub.request.url = urljoin(call.sub.pageUrl, a)

\* The six shapes of the claim: JSON and form encoding, each with the
\* username under "username", "email" and "login".
ClaimedShapes ==
  { [encoding |-> e, fields |-> f] :
      e \in {"json", "form"},
      f \in { [username |-> Username, password |-> Password],
              [email |-> Username, password |-> Password],
              [login |-> Username, password |-> Password] } }

\* C10 (as claimed): an endpoint the AJAX strategy leaves without success
\* has received the credentials in each of the six shapes, and nothing is
\* posted after the first success.
C10_SixShapesPerEndpoint ==
  /\ call.probe.state = "failed" => RangeOf(call.probe.shapes) = ClaimedShapes
  /\ call.probe.state = "succeeded" => call.pc # "ajax_login"

\* C11 (as claimed): the endpoints one pass of _try_ajax_auth posts to are
\* pairwise distinct once resolved against the login page's URL, and are at
\* most five.
C11_ProbedEndpointsDistinct ==
  call.probe.state = "open" =>
    /\ call.idx <= AjaxCap
    /\ \A j \in 1..(call.idx - 1) :
         ResolveHref(call.heldUrl, call.links[j]) # call.probe.url

\* C12: the appointment URLs are requested in the order of appointment_urls;
\* none is requested after one that gave a record; the call's list is the
\* records of the first candidate that gave any, and is empty only when
\* every candidate was requested and gave none.
C12_FirstYieldingCandidate ==
  LET n == Len(call.fetched)
  IN  /\ \A k \in 1..n : call.fetched[k].url = appointment_urls[k]
      /\ \A k \in 1..(n - 1) : call.fetched[k].records = <<>>
      /\ (Happened(<<"flow", "ok">>) /\ call.pc \in {"close", "done", "idle"}) =>
           /\ n >= 1
           /\ appointments = call.fetched[n].records
           /\ appointments = <<>> => n = Len(appointment_urls)

\* The first candidate gave nothing, the second gave records, and the call
\* ended with them.
C12_Witness ==
  /\ call.pc = "done"
  /\ Len(call.fetched) = 2
  /\ call.fetched[1].records = <<>>
  /\ appointments # <<>>

\* The category marker of the specification.
marker == "Selvbestemmer"

\* `marker in what`, case-sensitive, on the sample strings.
HasMarker(what) == what = marker

\* The data rows of the page's table.
DataRowsOf(page) == SubSeq(page.tables[1], 2, Len(page.tables[1]))

\* C13 (as claimed): a page with nothing but a table whose data rows all
\* have at least four cells, a date and the marker in the category cell
\* parses to one record per data row, in document order, made of cells 0
\* to 3, with full_description date + ' - ' + time, whatever the other
\* cells hold.
C13_OneRecordPerMarkedRow ==
  LET rows == DataRowsOf(arg.page)
  IN  (/\ result.state = "parsed"
       /\ arg.page.elements = <<>>
       /\ rows # <<>>
       /\ \A k \in DOMAIN rows :
            Len(rows[k]) >= 4 /\ rows[k][1] # "" /\ HasMarker(rows[k][2])) =>
        result.records =
          [k \in DOMAIN rows |->
             [date |-> rows[k][1], what |-> rows[k][2], time |-> rows[k][3],
              comment |-> rows[k][4],
              full_description |-> <<rows[k][1], " - ", rows[k][3]>>]]

\* C14 (as claimed): every record made from a table row has the marker in
\* its category.
C14_OnlyMarkedRowsReturned ==
  (result.state = "parsed" /\ arg.page.elements = <<>>) =>
    \A k \in DOMAIN result.records : HasMarker(result.records[k].what)

\* C15 (as claimed): a page whose table has the 'no active items' row as
\* its only data row parses to the empty list, whatever divs enclose the
\* table.
C15_NoActiveItemsIsEmpty ==
  (/\ result.state = "parsed"
   /\ DataRowsOf(arg.page) = <<NoItemsRow>>
   /\ \A k \in DOMAIN arg.page.elements : arg.page.elements[k].encloses) =>
    result.records = <<>>

\* C16: with a username or a password that is empty or shorter than three
\* characters, async_test_credentials of either scraper returns false and
\* sends no request.
C16_ShortCredentialsRejected ==
  (/\ result.state # "none"
   /\ \/ arg.username = <<>> \/ arg.password = <<>>
      \/ Len(arg.username) < 3 \/ Len(arg.password) < 3) =>
    /\ result.state = "returned"
    /\ result.verdict = FALSE
    /\ result.requests = <<>>

\* The config flow's scraper turned down a two-character username given
\* with a long enough password.
C16_Witness ==
  /\ arg.scraper = "SFOJSScraper"
  /\ Len(arg.username) = 2 /\ Len(arg.password) >= 3
  /\ result.state = "returned" /\ ~result.verdict /\ result.requests = <<>>

\* C17 (as claimed): with a username and a password of at least three
\* characters, async_test_credentials returns true whatever answer its
\* probe of the login URL gets, and no request of it carries the
\* credentials.
C17_ValidCredentialsAccepted ==
  (/\ result.state = "returned"
   /\ result.requests # <<>>
   /\ Len(arg.username) >= 3 /\ Len(arg.password) >= 3) =>
    /\ result.verdict = TRUE
    /\ \A k \in DOMAIN result.requests : result.requests[k].data = EmptyData

\* C18: of two calls under way at once, neither sends a cookie the portal
\* set for the other, and each returns what it returns when run alone,
\* however their requests interleave.
C18_NoSharedState ==
  \A i \in Invocations :
    /\ \A k \in DOMAIN result.sent[i] :
         result.sent[i][k].cookie \in {NoCookie, arg.account[i]}
    /\ result.pc[i] = "done" => result.ret[i] = AloneResult(i)

\* Two calls for different accounts, one accepted and one not, ended after
\* the refused one sent its requests while the other was logged in.
C18_Witness ==
  /\ arg.account[1] # arg.account[2]
  /\ arg.account[1] \in arg.valid /\ arg.account[2] \notin arg.valid
  /\ result.pc[1] = "fetch" /\ result.pc[2] = "done"
  /\ Len(result.sent[2]) = 2

\* The strategy s has returned k times so far.
Returns(s) == Cardinality({k \in DOMAIN events : events[k][1] = s /\ events[k][2] # "request"})

\* C19 (as claimed): within one call no strategy runs twice, and no login
\* form (same page URL, same action URL) is submitted with the credentials
\* more than once: in particular not the form of the page at LOGIN_URL.
C19_NoRetries ==
  /\ \A s \in RangeOf(Strategies) : Returns(s) <= 1
  /\ call.loginPosts <= 1


\* The loop the call is in has a candidate after the one being requested.
CandidateRemains ==
  \/ call.pc = "detect" /\ call.idx < Len(sfo_urls)
  \/ call.pc \in {"sfo_link", "method", "std_link"} /\ call.idx < Len(call.links)
  \/ call.pc = "std_meta" /\ call.idx < Len(call.held.metas)
  \/ call.pc = "oauth" /\ call.idx < Len(oauth_endpoints)
  \/ call.pc = "fetch" /\ call.idx < Len(appointment_urls)

\* C20 (as claimed): a transport error at one candidate endpoint is recovered
\* locally: when a request of a call raises for the first time while the
\* loop it belongs to has a candidate left, the next step of the call is
\* that loop's next candidate.
C20_TransportErrorRecoveredLocally ==
  [][(~call.faulted /\ call'.faulted /\ CandidateRemains)
       => (call'.pc = call.pc /\ call'.idx = call.idx + 1)]_vars


\* How often x occurs in the list s.
Occurrences(s, x) == Cardinality({i \in DOMAIN s : s[i] = x})

\* The two lists hold the same records, each as often in one as in the
\* other.
SameRecords(s, t) ==
  \A x \in RangeOf(s) \cup RangeOf(t) : Occurrences(s, x) = Occurrences(t, x)

\* C21: against a portal that answers every request identically from call
\* to call, a call of async_get_appointments returns the same records as
\* the call before it (whose list the coordinator holds), order ignored.
C21_SameRecordsTwice ==
  (call.pc = "done" /\ cycle >= 2) => SameRecords(appointments, data)

\* The second call logged in, as the first did, and returned the two
\* records the first returned.
C21_Witness ==
  /\ call.pc = "done" /\ cycle = 2
  /\ Len(appointments) = 2 /\ Len(data) = 2
  /\ call.jar # EmptyJar


\* C22: once a refresh has completed, what the sensors publish is the list
\* the last completed async_get_appointments call returned, record for
\* record: nothing of an earlier cycle's list is merged into it or carried
\* over, and an empty returned list is published as an empty list.
C22_PublishedIsLastFetch ==
  (call.pc = "idle" /\ cycle >= 1) =>
    /\ data = appointments
    /\ SensorState(data) = SensorState(appointments)
    /\ appointments = <<>> => SensorState(data).native_value = 0

\* Two refreshes have completed; the second call returned one record, which
\* is what the sensors publish.
C22_Witness ==
  /\ call.pc = "idle" /\ cycle = 2 /\ outcome = "returned"
  /\ Len(appointments) = 1
  /\ SensorState(data).native_value = 1


\* C23 (as claimed): in every list _parse_appointments_html returns, from
\* tables or from the fallback scan, full_description is a function of the
\* record's other fields: two records that agree on date, category, time
\* and comment have the same full_description.
C23_DescriptionDerivable ==
  result.state = "parsed" =>
    \A i, j \in DOMAIN result.records :
      LET a == result.records[i]
          b == result.records[j]
      IN  (a.date = b.date /\ a.what = b.what /\ a.time = b.time /\ a.comment = b.comment)
            => a.full_description = b.full_description


\* The date values the fallback scan gives its records.
ScanDates == {"Unknown", "See description", "Calendar item"}

\* `date pattern in text`, for a text made of pieces.
TextHasDate(pieces) == \E k \in DOMAIN pieces : HasDatePattern(pieces[k])

\* C24 (as claimed): the fallback scan runs only when no table gave a
\* record; each record it makes comes from an element whose text holds a
\* date-like pattern and has that element's whole text as its
\* full_description; and it returns at most 10 records.
C24_ScanOnlyDatedElements ==
  result.state = "parsed" =>
    LET rows == ParseTables(arg.page.tables, Len(arg.page.tables))
        recs == result.records
    IN  /\ rows # <<>> => \A k \in DOMAIN recs : recs[k].date \notin ScanDates
        /\ rows = <<>> =>
             \A k \in DOMAIN recs :
               \E e \in RangeOf(arg.page.elements) :
                 /\ recs[k].full_description = ElementText(arg.page, e)
                 /\ TextHasDate(ElementText(arg.page, e))
        /\ Len(recs) <= AltCap


\* How far a call has come, as one number: the strategy it is in (the
\* extraction and the return come after the four strategies), the loop of
\* that strategy, the candidate of the loop, the data format, whether the
\* form is being posted or the login verified, and the verification URL.
\* A form submitted by any caller but _handle_parent_login_page ends the
\* strategy, so it counts as the strategy's last loop.
Stage(c) ==
  CASE c.pc \in {"detect", "standard", "ajax", "oauth", "fetch"} -> 1
    [] c.pc \in {"sfo_link", "std_link", "ajax_login", "close"} -> 2
    [] c.pc \in {"method", "std_meta", "done"} -> 3
    [] c.pc \in {"submit", "verify"} ->
         IF c.caller = "method" THEN 3 ELSE IF c.caller = "ajax" THEN 2 ELSE 4
    [] OTHER -> 0

IdxBase == AjaxCap + MaxLinks + Len(oauth_endpoints) + 1

Progress(c) ==
  LET si   == IF c.strategy \in RangeOf(Strategies) THEN StrategyIndex(c.strategy)
              ELSE Len(Strategies) + 1
      fmt  == IF c.strategy = "ajax" /\ c.pc \in {"ajax_login", "verify"} THEN c.fmt ELSE 0
      sub  == IF c.pc = "submit" THEN 1 ELSE IF c.pc = "verify" THEN 2 ELSE 0
      vidx == IF c.pc = "verify" THEN c.vidx ELSE 0
  IN  ((((si * 5 + Stage(c)) * IdxBase + c.idx) * 3 + fmt) * 3 + sub) * (Len(test_urls) + 1)
        + vidx

\* The progress of a call that has returned.
Returned == ((((Len(Strategies) + 1) * 5 + 3) * IdxBase) * 3) * 3 * (Len(test_urls) + 1)

InFlight == call.pc \notin {"idle", "done"}

\* The call has a next step: it is at a request of one of its loops, with
\* a candidate to send it to, or about to return.
HasNextStep ==
  \/ call.pc \in {"standard", "ajax", "submit", "close"}
  \/ call.pc = "detect" /\ call.idx \in DOMAIN sfo_urls
  \/ call.pc \in {"sfo_link", "method", "std_link", "ajax_login"} /\ call.idx \in DOMAIN call.links
  \/ call.pc = "std_meta" /\ call.idx \in DOMAIN call.held.metas
  \/ call.pc = "oauth" /\ call.idx \in DOMAIN oauth_endpoints
  \/ call.pc = "verify" /\ call.vidx \in DOMAIN test_urls
  \/ call.pc = "fetch" /\ call.idx \in DOMAIN appointment_urls

\* C25: a call of async_get_appointments returns once each of its requests
\* has completed, failed or timed out.  Whatever the answer to a request
\* (a raised timeout included), the call moves strictly forward, to its
\* next candidate, its next strategy or its return; it always has a next
\* step to take; and its progress never exceeds that of a returned call: the
\* requests of one call are bounded.
C25_CallTerminates ==
  /\ [](InFlight => HasNextStep)
  /\ [](Progress(call) <= Returned)
  /\ [][InFlight => Progress(call') > Progress(call)]_vars

\* A call went through all four strategies, a request of it having raised,
\* and returned.
C25_Witness ==
  /\ call.pc = "done" /\ call.faulted /\ ~call.caught
  /\ Happened(<<"oauth", "fail">>)
  /\ Progress(call) = Returned

\* The callers of _submit_login_form in _try_standard_form_auth.
StandardCallers == {"std_direct", "std_parent", "std_meta"}

\* _try_standard_form_auth has a submission under way.
StandardSubmitting == call.pc \in {"submit", "verify"} /\ call.caller \in StandardCallers

\* C26 (as claimed): in _try_standard_form_auth the parent-login links are
\* followed only when the login page has no login-capable form, and in
\* document order; the one form the strategy submits is login-capable (the
\* form itself has a username-like and a password input); and once the
\* submission returned the strategy is over: no further link of it is
\* followed.
C26_StandardSubmitsFirstLoginCapableForm ==
  /\ [](call.pc = "std_link" => ~LoginCapable(call.held.form))
  /\ [][(call.pc = "std_link" /\ call'.pc = "std_link")
          => (call'.idx = call.idx + 1 /\ call'.links = call.links)]_vars
  /\ [](StandardSubmitting => LoginCapable(call.sub.form))
  /\ [][(StandardSubmitting /\ call'.pc \notin {"submit", "verify"})
          => call'.pc \notin {"standard", "std_link", "std_meta"}]_vars

\* ------------------------------------------------------------ SpecSession
\* The session of a call: async_get_appointments ("fetch") and
\* async_test_credentials ("validate") of SFOScraper and of SFOJSScraper,
\* called one after another on the same scraper object.  `session` is here
\* the sequence of the sessions created so far, each with the call that
\* created it; call.idx is the session the running call holds in its local
\* variable `session`, cycle the number of the running call.
Operations == {"fetch", "validate"}

MaxCalls == 2

\* How the awaits a call makes while it holds its session end: the login
\* succeeded, it was turned down, a request raised an Exception, or the
\* task was cancelled (asyncio.CancelledError, which `except Exception`
\* does not catch).
BodyEnds == {"authenticated", "rejected", "raise", "cancel"}

\* Whether the call reaches the closing of its session after its awaits
\* ended with `end`.  SFOScraper holds the session in `async with`, which
\* closes it however the block is left.  SFOJSScraper.async_test_credentials
\* closes it after the GET and in a bare `except:`.
\* SFOJSScraper.async_get_appointments closes it as the last statement of its
\* try block: _perform_js_login and _fetch_js_appointments catch every
\* Exception themselves, a cancellation passes through them and through
\* the `except Exception` of the call.
ReachesClose(scraper, op, end) ==
  IF scraper = "SFOJSScraper" /\ op = "fetch" THEN end # "cancel" ELSE TRUE

\* How the call ends for its caller: a cancellation the call does not
\* swallow is raised, everything else is returned.
CallEnds(scraper, op, end) ==
  IF end = "cancel" /\ ~(scraper = "SFOJSScraper" /\ op = "validate") THEN "raised"
  ELSE "returned"

InitSession ==
  /\ call = IdleCall
  /\ events = <<>>
  /\ appointments = <<>>
  /\ outcome = "none"
  /\ session = <<>>
  /\ data = <<>>
  /\ last_update_success = TRUE
  /\ cycle = 0
  /\ arg \in { [NoArg EXCEPT !.scraper = c, !.op = o, !.username = u, !.password = p] :
                 c \in Scrapers, o \in Operations,
                 u \in SampleUsernames, p \in SamplePasswords }
  /\ result = NoResult

\* The call starts: async_test_credentials returns False on credentials
\* it rejects; otherwise the session is created (a fault there lands in
\* the call's except clause) and kept in the local variable `session`.
CreateSession ==
  /\ call.pc = "idle"
  /\ cycle < MaxCalls
  /\ cycle' = cycle + 1
  /\ \E fault \in BOOLEAN :
       IF (arg.op = "validate" /\ CredentialsRejected(arg.username, arg.password)) \/ fault
       THEN /\ call' = [IdleCall EXCEPT !.pc = "done"]
            /\ outcome' = "returned"
            /\ session' = session
       ELSE /\ session' = Append(session, [owner |-> cycle + 1, state |-> "open"])
            /\ call' = [IdleCall EXCEPT !.pc = "body", !.idx = Len(session) + 1]
            /\ outcome' = "none"
  /\ UNCHANGED <<events, appointments, data, last_update_success, arg, result>>

\* The awaits of the call end: it goes on to close its session, or leaves
\* without.
SessionBody ==
  /\ call.pc = "body"
  /\ \E end \in BodyEnds :
       /\ outcome' = CallEnds(arg.scraper, arg.op, end)
       /\ call' = [call EXCEPT !.pc = IF ReachesClose(arg.scraper, arg.op, end)
                                      THEN "close" ELSE "done"]
  /\ UNCHANGED <<events, appointments, session, data, last_update_success, cycle, arg,
                 result>>

\* `await session.close()`, or the end of the `async with` block.
CloseSession ==
  /\ call.pc = "close"
  /\ session' = [session EXCEPT ![call.idx].state = "closed"]
  /\ call' = [call EXCEPT !.pc = "done"]
  /\ UNCHANGED <<events, appointments, outcome, data, last_update_success, cycle, arg,
                 result>>

\* The call is over; the scraper object may be called again.
CallOver ==
  /\ call.pc = "done"
  /\ call' = IdleCall
  /\ UNCHANGED <<events, appointments, outcome, session, data, last_update_success, cycle,
                 arg, result>>

NextSession == CreateSession \/ SessionBody \/ CloseSession \/ CallOver

SpecSession == InitSession /\ [][NextSession]_vars

\* C27 (as claimed): every session a fetch or validate call created is
\* closed by the time the call is over, however the call ended; and the
\* session a running call holds is the one that call created.
C27_NoSessionOutlivesItsCall ==
  /\ call.pc \in {"idle", "done"} => \A i \in DOMAIN session : session[i].state = "closed"
  /\ call.pc \in {"body", "close"} => session[call.idx].owner = cycle

\* _handle_sfo_login is running for the page of a candidate.
Handling ==
  \/ call.pc \in {"sfo_link", "method"}
  \/ call.pc \in {"submit", "verify"} /\ call.caller \in {"sfo_parent", "sfo_direct", "method"}

\* C28: in _detect_sfo_system a candidate is requested only right after the
\* candidate before it, whose answer was not a 200 page with 'sfo' or
\* 'soestjernen' in its text; so once a candidate gave such a page no
\* further candidate is requested, whatever the handling of that page
\* comes to; and when the handling of the page ends, its result is the
\* result of the detection.
C28_FirstSfoPageDecides ==
  /\ [][(call'.pc = "detect" /\ cycle' = cycle)
          => (call.pc = "detect" /\ call'.idx = call.idx + 1)]_vars
  /\ [](call.pc = "detect" => ~LooksLikeSfo(call.held.text))
  /\ [][(Handling /\ ~Handling')
          => /\ call'.pc # "detect"
             /\ Len(events') > Len(events)
             /\ events'[Len(events) + 1] \in {<<"detect", "ok">>, <<"detect", "fail">>}
             /\ call.pc \in {"submit", "verify"}
                  => events'[Len(events) + 1] = <<"detect", call'.sub.ret>>]_vars

\* A candidate gave a page that looks like the SFO system; the form behind
\* its parent link was submitted and turned down; the detection failed with
\* it and the direct-form strategy is next.
C28_Witness ==
  /\ call.pc = "standard"
  /\ Happened(<<"detect", "fail">>)
  /\ call.sub.caller = "sfo_parent" /\ call.sub.posted /\ call.sub.ret = "fail"

\* ------------------------------------------------------------ SpecVerdict
\* _verify_authentication in two runs side by side.  A run is what the
\* function could read: the scraper's credentials, the response its
\* caller _submit_login_form got to the credential POST, and the answers
\* the session gives to the GETs of test_urls.
Run(username, password, submission, answers) ==
  [username |-> username, password |-> password, submission |-> submission,
   answers |-> answers]

\* The answers to the GETs of test_urls, one for each URL.
VerificationAnswers ==
  { <<a1, a2, a3, a4>> :
      a1 \in OutcomesAt(test_urls[1], VerifyPages), a2 \in OutcomesAt(test_urls[2], VerifyPages),
      a3 \in OutcomesAt(test_urls[3], VerifyPages), a4 \in OutcomesAt(test_urls[4], VerifyPages) }

\* _verify_authentication from test_urls[i] on: True at the first URL
\* that answers 200 with a page judged authenticated, False when none is
\* left; a raise or another status moves to the next URL.
RECURSIVE VerifiedFrom(_, _)
VerifiedFrom(answers, i) ==
  IF i > Len(test_urls) THEN FALSE
  ELSE IF Is200(answers[i]) /\ PageVerified(answers[i].page.text) THEN TRUE
  ELSE VerifiedFrom(answers, i + 1)

\* _verify_authentication, were it to read the response to the
\* credential POST first.
VerifyAuthenticationReadsSubmission(run) ==
  PageVerified(run.submission.body) \/ VerifiedFrom(run.answers, 1)

\* _verify_authentication(session) in a run.
VerifyAuthentication(run) == VerifiedFrom(run.answers, 1)

\* The second run beside the first: another username, another password,
\* another response to the credential POST, or all three.
Beside(run) ==
  { [run EXCEPT !.username = "user2"],
    [run EXCEPT !.password = "wrong"],
    [run EXCEPT !.submission = [status |-> 200, body |-> Text({"Login"}, ShortLength)]],
    [run EXCEPT !.username = "user2", !.password = "wrong",
                !.submission = [status |-> 302, body |-> Text({"Login"}, ShortLength)]] }

\* Two runs that get the same verification answers and differ in
\* username, password or the response to the credential POST.
InitVerdict ==
  /\ Quiet
  /\ \E a \in VerificationAnswers :
       LET first == Run(Username, Password,
                        [status |-> 200, body |-> Text({"Dashboard"}, LongLength)], a)
       IN  arg \in { [NoArg EXCEPT !.runs = <<first, second>>] : second \in Beside(first) }
  /\ result = NoResult

\* Both runs verify.
VerifyRuns ==
  /\ result.state = "none"
  /\ result' = [result EXCEPT !.state = "judged",
                              !.records = [i \in DOMAIN arg.runs |->
                                             VerifyAuthentication(arg.runs[i])]]
  /\ UNCHANGED <<call, events, appointments, outcome, session, data, last_update_success,
                 cycle, arg>>

SpecVerdict == InitVerdict /\ [][VerifyRuns]_vars

\* C29: two runs of _verify_authentication that get the same pages from the
\* verification URLs get the same verdict, whatever their usernames,
\* their passwords and the responses to their credential POSTs.
C29_VerdictDependsOnVerificationPagesOnly ==
  (result.state = "judged" /\ arg.runs[1].answers = arg.runs[2].answers)
    => result.records[1] = result.records[2]

\* Two runs with different usernames, different passwords and different
\* responses to the POST, the second one's being a login page; the first
\* verification URL raises, the second answers with a dashboard: both are
\* judged authenticated.
C29_Witness ==
  /\ result.state = "judged"
  /\ arg.runs[1].username # arg.runs[2].username
  /\ arg.runs[1].password # arg.runs[2].password
  /\ ~PageVerified(arg.runs[2].submission.body) /\ PageVerified(arg.runs[1].submission.body)
  /\ arg.runs[1].answers = arg.runs[2].answers
  /\ arg.runs[1].answers[1].kind = "raise" /\ Is200(arg.runs[1].answers[2])
  /\ result.records = <<TRUE, TRUE>>

\* ------------------------------------------------------------ SpecGate
\* _parse_appointments_html on pages whose text outside the tables holds
\* one of the login indicators or none, with and without appointment
\* tables and elements the fallback scan reads.
GateTexts ==
  { Text(base \cup ws, l) :
      base \in {{"Aftaler"}, {"velkommen"}},
      ws \in {{}, {"Login"}, {"password"}, {"Brugernavn"}, {"Sign in"}, {"Log på"}},
      l \in {ShortLength, LongLength} }

GateTables ==
  { <<>>, << <<HeaderRow, BookingRow>> >>, << <<HeaderRow, BookingRow, OtherRow>> >>,
    << <<HeaderRow, LoginNoteRow>> >> }

GatePages ==
  { AppointmentPage(t, tables, e) :
      t \in GateTexts, tables \in GateTables,
      e \in {<<>>} \cup { <<x>> : x \in SampleElements } }

InitGate ==
  /\ Quiet
  /\ arg \in { [NoArg EXCEPT !.page = p] : p \in GatePages }
  /\ result = NoResult

SpecGate == InitGate /\ [][ParsePage]_vars

\* C30: _parse_appointments_html returns the empty list for every page
\* whose text holds 'login', 'password', 'brugernavn', 'sign in' or
\* 'log på' in any case, whatever tables and elements the page has and
\* whatever _verify_authentication makes of that text.
C30_LoginPageGivesNoRecords ==
  (result.state = "parsed"
     /\ \E i \in {"login", "password", "brugernavn", "sign in", "log på"} :
          ContainsLower(PageText(arg.page), i))
    => result.records = <<>>

\* A page that says 'Log på' beside 'Aftaler' and holds a table with a
\* booking row: _verify_authentication judges its text authenticated, its
\* table rows would give records, and the parse returned none.
C30_Witness ==
  /\ result.state = "parsed"
  /\ "Log på" \in arg.page.text.words
  /\ PageVerified(PageText(arg.page))
  /\ ParseTables(arg.page.tables, Len(arg.page.tables)) # <<>>
  /\ result.records = <<>>

====
